---- MODULE Spec2Model ----
(***************************************************************************)
(* Model of the scenario stage progression of TRPGBOT_ver1:                *)
(*   src/scenario_manager.py   ScenarioManager (the persisted record)      *)
(*   src/message_processor.py  handle_message (the message pipeline)       *)
(*   src/multi_bot_test.py     setup_master_session and the scenario loop  *)
(* One user is modelled: every record is keyed by user id and no operation *)
(* reads another user's record.                                            *)
(*                                                                         *)
(* Strings of the source are modelled by "" (empty, falsy) and "v" (any    *)
(* non-empty text).  A missing dictionary key and the key with value ""    *)
(* are one case: every read in the source goes through .get(), which is    *)
(* falsy for both.  The append-only play log `sessions` and the time       *)
(* stamps are not part of the state.                                       *)
(***************************************************************************)
EXTENDS Integers, Sequences, FiniteSets, TLC

VARIABLES
    scenario_file,   \* scenarios/scenario_<user>.json: NoScenario or the record
    npc_manager,     \* TRUE iff the object imported from npc_manager is truthy
    npc_store,       \* number of NPCs npc_manager.load_npcs(user) returns
    session_type,    \* session_manager's current_session_type of the user
    rig,             \* position of multi_bot_test's scenario generation loop, and
                     \* the stage of the record its setup found (history)
    walk,            \* a caller applying get_next_stage repeatedly: stage and calls
    probe,           \* the last is_stage_complete call: its stage and its result
    append_call,     \* the last direct add_* call: its number, category, write outcome
    session_file,    \* sessions/user_<user>/<category>.json: what the final path holds
    temp_file,       \* <final path>.tmp: what the temporary path holds
    save,            \* the running save_session_data call: position, input, result
    reader,          \* what the last load of the final path read
    context_parts,   \* the blocks given to optimize_context_parts
    max_total_length, \* the budget given to optimize_context_parts
    optimized_parts, \* the blocks it returned
    user_conversations, \* user_conversations[user]: the turns said so far
    completion,      \* the last extract_session_completion_info call and what
                     \* handle_message did with its result
    repetition,      \* the last check_repetitive_situation_in_context call and
                     \* what force_episode_progression_context returned
    extraction,      \* the last extraction or fill call: its input and result
    transport,       \* the last split_long_message or send_long_message call:
                     \* the text, the chunks, the payloads given to reply_text
    generation,      \* generate_master_response_with_scenario_support: its
                     \* position, the generation calls it made, what it returned
    conversation     \* continuous_conversation: running, round_number, error_count

\* The variables of the session record store and of the context budget.
store_vars == <<append_call, session_file, temp_file, save, reader>>

budget_vars == <<context_parts, max_total_length, optimized_parts>>

\* The variables of the conversation: completion and repetition checks.
talk_vars == <<user_conversations, completion, repetition>>

\* The variables of the extraction calls, of the transport, of the
\* generation calls and of the conversation loop of multi_bot_test.
io_vars == <<extraction, transport, generation, conversation>>

vars == <<scenario_file, npc_manager, npc_store, session_type, rig, walk, probe,
          store_vars, budget_vars, talk_vars, io_vars>>

----------------------------------------------------------------------------
\* Bounds of the model.

\* No category grows beyond this many records (guard of the appending steps).
MaxRecords == 3

\* The language model leaves a field empty in at most this many records of a
\* user (guard of the appending steps).
MaxIncomplete == 1

\* Largest store of the NPC subsystem the completion predicate is probed with.
MaxNpcStore == 4

\* Number of get_next_stage applications a caller chains.
MaxCalls == 7

\* Number of direct add_* calls made on a user's record.
MaxAppends == 3

\* Longest conversation a completion check is made on.
MaxHistory == 6

\* Most lines of a text given to split_long_message, the longest of its
\* lines, and the largest of the small limits it is called with.
MaxLines == 3
MaxLineLen == 4
MaxLimit == 3

\* Largest round_number continuous_conversation is followed to.
MaxRoundNumber == 103

\* Longest conversation a repetition check is made on.
MaxTurns == 11

\* Most turns of a conversation that hold a repetition keyword or a round
\* number.
MaxMarked == 3

\* Longest list of blocks given to optimize_context_parts.
MaxBlocks == 3

\* Largest budget given to optimize_context_parts.
MaxBudget == 20

\* Length of the longest block given to optimize_context_parts.
MaxLen == 14

----------------------------------------------------------------------------
\* class ScenarioStage(Enum)

OVERVIEW == "Overview"
EPISODES == "Episodes"
NPCS == "NPCs"
HINTS == "Hints"
DUNGEONS == "Dungeons"
COMPLETED == "Completed"

ScenarioStage == {OVERVIEW, EPISODES, NPCS, HINTS, DUNGEONS, COMPLETED}

\* Position of a stage in the declaration order of the enumeration.
StageOrder == <<OVERVIEW, EPISODES, NPCS, HINTS, DUNGEONS, COMPLETED>>

StageIndex(stage) == CHOOSE i \in 1..Len(StageOrder) : StageOrder[i] = stage

\* Session types (session_manager), the ones the modelled code moves between.
SESSION_OTHER == "other"
SESSION_CHARACTER == "character_creation"
SESSION_SCENARIO == "scenario_creation"
SESSION_ADVENTURE == "adventure_creation"
SESSION_DUNGEON == "dungeon_creation"
SESSION_PARTY == "party_creation"
SESSION_PARTY_FORMATION == "party_formation"
SESSION_PREPARATION == "adventure_preparation"
SESSION_PLAY == "adventure_play"

\* Episode status written by setup_master_session.
EPISODE_IN_PROGRESS == "in_progress"

\* Episode status written by advance_to_next_episode.
EPISODE_COMPLETED == "completed"

----------------------------------------------------------------------------
\* The persisted record.

NoScenario == [exists |-> FALSE]

\* A path at which no file exists.
NoFile == [image |-> "none", complete |-> FALSE]

OverviewFields == {"theme", "setting", "main_conflict", "objective", "rewards"}

\* The fields find_empty_fields inspects in the overview.
OverviewChecked == {"title"} \cup OverviewFields

EmptyOverview == [k \in OverviewChecked |-> ""]

\* Content categories and the (modelled) fields find_empty_fields inspects.
Categories == {"episodes", "npcs", "hints", "dungeons"}

CategoryFields(cat) ==
    CASE cat = "episodes" -> {"title", "objective"}
      [] cat = "npcs" -> {"name", "personality"}
      [] cat = "hints" -> {"content", "discovery_method"}
      [] cat = "dungeons" -> {"name", "description"}

\* The content category the extraction of a stage appends to.
StageCategory(stage) ==
    CASE stage = EPISODES -> "episodes"
      [] stage = NPCS -> "npcs"
      [] stage = HINTS -> "hints"
      [] stage = DUNGEONS -> "dungeons"
      [] OTHER -> "none"

\* The file exists but holds an empty or partial text: json.load raises.
PartialScenario == [exists |-> FALSE, partial |-> TRUE]

\* None when the file is missing or does not parse.
load_scenario(file) == IF file.exists THEN file ELSE NoScenario

save_scenario(scenario_data) == scenario_data

\* init_scenario_creation if it returned an existing record unchanged.
init_scenario_creation_keeps_existing ==
    IF scenario_file.exists THEN scenario_file
    ELSE [exists |-> TRUE, current_stage |-> OVERVIEW, title |-> "",
          overview |-> EmptyOverview, episodes |-> <<>>, npcs |-> <<>>,
          hints |-> <<>>, dungeons |-> <<>>, sessions |-> {},
          episode_progress |-> <<>>]

init_scenario_creation ==
    save_scenario(
        [exists |-> TRUE,
         current_stage |-> OVERVIEW,
         title |-> "",
         overview |-> EmptyOverview,
         episodes |-> <<>>,
         npcs |-> <<>>,
         hints |-> <<>>,
         dungeons |-> <<>>,
         sessions |-> {},
         episode_progress |-> <<>>])

get_current_stage(file) ==
    LET scenario_data == load_scenario(file)
    IN IF ~scenario_data.exists THEN OVERVIEW ELSE scenario_data.current_stage

\* A set_current_stage that starts the episodes over.
set_current_stage_resets_progress(file, stage) ==
    LET scenario_data == load_scenario(file)
    IN IF scenario_data.exists
       THEN save_scenario([scenario_data EXCEPT !.current_stage = stage,
                                                !.episode_progress = <<>>])
       ELSE file

set_current_stage(file, stage) ==
    LET scenario_data == load_scenario(file)
    IN IF scenario_data.exists
       THEN save_scenario([scenario_data EXCEPT !.current_stage = stage])
       ELSE file

\* get_next_stage with the successor of NPCs mistyped.
get_next_stage_backward(current_stage) ==
    CASE current_stage = OVERVIEW -> EPISODES
      [] current_stage = EPISODES -> NPCS
      [] current_stage = NPCS -> EPISODES
      [] current_stage = HINTS -> DUNGEONS
      [] current_stage = DUNGEONS -> COMPLETED
      [] OTHER -> COMPLETED

\* get_next_stage with the entry of Hints missing (the default applies).
get_next_stage_no_hints_entry(current_stage) ==
    CASE current_stage = OVERVIEW -> EPISODES
      [] current_stage = EPISODES -> NPCS
      [] current_stage = NPCS -> HINTS
      [] current_stage = DUNGEONS -> COMPLETED
      [] OTHER -> COMPLETED

get_next_stage(current_stage) ==
    CASE current_stage = OVERVIEW -> EPISODES
      [] current_stage = EPISODES -> NPCS
      [] current_stage = NPCS -> HINTS
      [] current_stage = HINTS -> DUNGEONS
      [] current_stage = DUNGEONS -> COMPLETED
      [] OTHER -> COMPLETED

is_npc_stage_complete(manager, store) ==
    IF ~manager THEN FALSE ELSE store >= 3

\* is_stage_complete with rewards among the required overview fields.
is_stage_complete_rewards(file, manager, store, stage) ==
    LET scenario_data == load_scenario(file)
    IN IF ~scenario_data.exists THEN FALSE
       ELSE CASE stage = OVERVIEW ->
                     /\ scenario_data.overview["theme"] # ""
                     /\ scenario_data.overview["setting"] # ""
                     /\ scenario_data.overview["main_conflict"] # ""
                     /\ scenario_data.overview["objective"] # ""
                     /\ scenario_data.overview["rewards"] # ""
              [] stage = EPISODES -> Len(scenario_data.episodes) >= 3
              [] stage = NPCS ->
                     IF manager THEN is_npc_stage_complete(manager, store)
                     ELSE Len(scenario_data.npcs) >= 3
              [] stage = HINTS -> Len(scenario_data.hints) >= 3
              [] stage = DUNGEONS -> Len(scenario_data.dungeons) >= 1
              [] OTHER -> FALSE

\* is_stage_complete with the title among the required overview fields.
is_stage_complete_title(file, manager, store, stage) ==
    LET scenario_data == load_scenario(file)
    IN IF ~scenario_data.exists THEN FALSE
       ELSE CASE stage = OVERVIEW ->
                     /\ scenario_data.overview["title"] # ""
                     /\ scenario_data.overview["theme"] # ""
                     /\ scenario_data.overview["setting"] # ""
                     /\ scenario_data.overview["main_conflict"] # ""
                     /\ scenario_data.overview["objective"] # ""
              [] stage = EPISODES -> Len(scenario_data.episodes) >= 3
              [] stage = NPCS ->
                     IF manager THEN is_npc_stage_complete(manager, store)
                     ELSE Len(scenario_data.npcs) >= 3
              [] stage = HINTS -> Len(scenario_data.hints) >= 3
              [] stage = DUNGEONS -> Len(scenario_data.dungeons) >= 1
              [] OTHER -> FALSE

\* is_stage_complete with `>` for `>=` in the Hints threshold.
is_stage_complete_hints_strict(file, manager, store, stage) ==
    LET scenario_data == load_scenario(file)
    IN IF ~scenario_data.exists THEN FALSE
       ELSE CASE stage = OVERVIEW ->
                     /\ scenario_data.overview["theme"] # ""
                     /\ scenario_data.overview["setting"] # ""
                     /\ scenario_data.overview["main_conflict"] # ""
                     /\ scenario_data.overview["objective"] # ""
              [] stage = EPISODES -> Len(scenario_data.episodes) >= 3
              [] stage = NPCS ->
                     IF manager THEN is_npc_stage_complete(manager, store)
                     ELSE Len(scenario_data.npcs) >= 3
              [] stage = HINTS -> Len(scenario_data.hints) > 3
              [] stage = DUNGEONS -> Len(scenario_data.dungeons) >= 1
              [] OTHER -> FALSE

\* is_stage_complete with the local NPC count and the subsystem's conjoined.
is_stage_complete_conjoined(file, manager, store, stage) ==
    LET scenario_data == load_scenario(file)
    IN IF ~scenario_data.exists THEN FALSE
       ELSE CASE stage = OVERVIEW ->
                     /\ scenario_data.overview["theme"] # ""
                     /\ scenario_data.overview["setting"] # ""
                     /\ scenario_data.overview["main_conflict"] # ""
                     /\ scenario_data.overview["objective"] # ""
              [] stage = EPISODES -> Len(scenario_data.episodes) >= 3
              [] stage = NPCS ->
                     /\ Len(scenario_data.npcs) >= 3
                     /\ (manager => is_npc_stage_complete(manager, store))
              [] stage = HINTS -> Len(scenario_data.hints) >= 3
              [] stage = DUNGEONS -> Len(scenario_data.dungeons) >= 1
              [] OTHER -> FALSE

is_stage_complete(file, manager, store, stage) ==
    LET scenario_data == load_scenario(file)
    IN IF ~scenario_data.exists THEN FALSE
       ELSE CASE stage = OVERVIEW ->
                     /\ scenario_data.overview["theme"] # ""
                     /\ scenario_data.overview["setting"] # ""
                     /\ scenario_data.overview["main_conflict"] # ""
                     /\ scenario_data.overview["objective"] # ""
              [] stage = EPISODES -> Len(scenario_data.episodes) >= 3
              [] stage = NPCS ->
                     IF manager THEN is_npc_stage_complete(manager, store)
                     ELSE Len(scenario_data.npcs) >= 3
              [] stage = HINTS -> Len(scenario_data.hints) >= 3
              [] stage = DUNGEONS -> Len(scenario_data.dungeons) >= 1
              [] OTHER -> FALSE

\* overview.update(overview_data): every key of overview_data is overwritten.
update_scenario_overview(file, overview_data) ==
    LET loaded == load_scenario(file)
        scenario_data == IF loaded.exists THEN loaded ELSE init_scenario_creation
    IN save_scenario(
           [scenario_data EXCEPT
              !.overview = [k \in OverviewChecked |->
                               IF k \in DOMAIN overview_data
                               THEN overview_data[k] ELSE @[k]]])

\* <record>["id"] = len(<category>) + 1, then append.
WithId(data, id) == [k \in DOMAIN data \cup {"id"} |-> IF k = "id" THEN id ELSE data[k]]

add_episode(file, episode_data) ==
    LET scenario_data == load_scenario(file)
    IN IF scenario_data.exists
       THEN save_scenario([scenario_data EXCEPT !.episodes =
                Append(@, WithId(episode_data, Len(@) + 1))])
       ELSE file

add_npc(file, npc_data) ==
    LET scenario_data == load_scenario(file)
    IN IF scenario_data.exists
       THEN save_scenario([scenario_data EXCEPT !.npcs =
                Append(@, WithId(npc_data, Len(@) + 1))])
       ELSE file

\* add_hint that creates the record when the user has none.
add_hint_creates_record(file, hint_data) ==
    LET loaded == load_scenario(file)
        scenario_data == IF loaded.exists THEN loaded ELSE init_scenario_creation
    IN save_scenario([scenario_data EXCEPT !.hints =
            Append(@, WithId(hint_data, Len(@) + 1))])

\* add_hint with a 0-based id.
add_hint_id_from_zero(file, hint_data) ==
    LET scenario_data == load_scenario(file)
    IN IF scenario_data.exists
       THEN save_scenario([scenario_data EXCEPT !.hints =
                Append(@, WithId(hint_data, Len(@)))])
       ELSE file

add_hint(file, hint_data) ==
    LET scenario_data == load_scenario(file)
    IN IF scenario_data.exists
       THEN save_scenario([scenario_data EXCEPT !.hints =
                Append(@, WithId(hint_data, Len(@) + 1))])
       ELSE file

add_dungeon(file, dungeon_data) ==
    LET scenario_data == load_scenario(file)
    IN IF scenario_data.exists
       THEN save_scenario([scenario_data EXCEPT !.dungeons =
                Append(@, WithId(dungeon_data, Len(@) + 1))])
       ELSE file

\* save_scenario when the write can fail: "open" fails before the file is
\* opened; "dump" fails, or the process stops, after open(file_path, 'w') has
\* truncated the file and before json.dump has written all of it.
WriteFaults == {"none", "open", "dump"}

write_scenario(file, scenario_data, fault) ==
    CASE fault = "none" -> save_scenario(scenario_data)
      [] fault = "open" -> file
      [] fault = "dump" -> PartialScenario

\* add_episode / add_npc / add_hint / add_dungeon with the outcome of the
\* write: the write happens where add_* reached save_scenario, that is where
\* it has something to store.
add_content(file, cat, data, fault) ==
    LET stored == CASE cat = "episodes" -> add_episode(file, data)
                    [] cat = "npcs" -> add_npc(file, data)
                    [] cat = "hints" -> add_hint(file, data)
                    [] cat = "dungeons" -> add_dungeon(file, data)
    IN IF stored = file THEN file ELSE write_scenario(file, stored, fault)

update_episode_progress(file, episode_id, status) ==
    LET scenario_data == load_scenario(file)
    IN IF ~scenario_data.exists THEN file
       ELSE save_scenario([scenario_data EXCEPT !.episode_progress =
                [k \in DOMAIN @ \cup {episode_id} |->
                    IF k = episode_id THEN status ELSE @[k]]])

----------------------------------------------------------------------------
\* Completing missing fields.

EmptyOf(record, fields) == {k \in fields : record[k] = ""}

EmptyPerRecord(records, cat) ==
    [i \in 1..Len(records) |-> EmptyOf(records[i], CategoryFields(cat))]

\* The result maps "overview" to the set of its empty fields and a category
\* to the empty fields of each of its records; a key is `in empty_fields`
\* when something is reported under it (InEmptyFields).
find_empty_fields(file) ==
    LET scenario_data == load_scenario(file)
    IN IF ~scenario_data.exists
       THEN [overview |-> {}, episodes |-> <<>>, npcs |-> <<>>,
             hints |-> <<>>, dungeons |-> <<>>]
       ELSE [overview |-> EmptyOf(scenario_data.overview, OverviewChecked),
             episodes |-> EmptyPerRecord(scenario_data.episodes, "episodes"),
             npcs |-> EmptyPerRecord(scenario_data.npcs, "npcs"),
             hints |-> EmptyPerRecord(scenario_data.hints, "hints"),
             dungeons |-> EmptyPerRecord(scenario_data.dungeons, "dungeons")]

InEmptyFields(empty_fields, key) ==
    IF key = "overview" THEN empty_fields.overview # {}
    ELSE \E i \in DOMAIN empty_fields[key] : empty_fields[key][i] # {}

AnyEmptyFields(empty_fields) ==
    \E key \in {"overview"} \cup Categories : InEmptyFields(empty_fields, key)

\* A field is filled iff it was reported empty and the new data has a truthy value.
Fills(new_record, field) == field \in DOMAIN new_record /\ new_record[field] # ""

\* FillRecords that takes every value the new data holds, reported or not.
FillRecords_unlisted(records, new_records, empty) ==
    [i \in 1..Len(records) |->
        IF i <= Len(new_records)
        THEN [k \in DOMAIN records[i] |->
                 IF k \in DOMAIN new_records[i]
                    /\ (k = "id" \/ new_records[i][k] # "")
                 THEN new_records[i][k] ELSE records[i][k]]
        ELSE records[i]]

FillRecords(records, new_records, empty) ==
    [i \in 1..Len(records) |->
        IF empty[i] # {} /\ i <= Len(new_records)
        THEN [k \in DOMAIN records[i] |->
                 IF k \in empty[i] /\ Fills(new_records[i], k)
                 THEN new_records[i][k] ELSE records[i][k]]
        ELSE records[i]]

FillCategory(scenario_data, extracted_data, empty_fields, cat) ==
    IF InEmptyFields(empty_fields, cat) /\ cat \in DOMAIN extracted_data
    THEN FillRecords(scenario_data[cat], extracted_data[cat], empty_fields[cat])
    ELSE scenario_data[cat]

update_missing_fields(file, extracted_data, empty_fields) ==
    LET scenario_data == load_scenario(file)
    IN IF ~scenario_data.exists THEN [file |-> file, updated |-> FALSE]
       ELSE LET filled ==
                  [scenario_data EXCEPT
                     !.overview =
                        IF InEmptyFields(empty_fields, "overview")
                           /\ "overview" \in DOMAIN extracted_data
                        THEN [k \in OverviewChecked |->
                                 IF k \in empty_fields.overview
                                    /\ Fills(extracted_data.overview, k)
                                 THEN extracted_data.overview[k] ELSE @[k]]
                        ELSE @,
                     !.episodes = FillCategory(scenario_data, extracted_data, empty_fields, "episodes"),
                     !.npcs = FillCategory(scenario_data, extracted_data, empty_fields, "npcs"),
                     !.hints = FillCategory(scenario_data, extracted_data, empty_fields, "hints"),
                     !.dungeons = FillCategory(scenario_data, extracted_data, empty_fields, "dungeons")]
                updated == filled # scenario_data
            IN [file |-> IF updated THEN save_scenario(filled) ELSE file,
                updated |-> updated]

\* The language model's replies are inputs: [ok |-> FALSE] is a reply the
\* caller cannot use (no JSON, a parse error, only empty values, an error
\* phrase, a payload of the wrong shape); [ok |-> TRUE, data |-> d] parses to d.
\* A reply that stores nothing and writes nothing: a text with no JSON in
\* it, JSON that does not decode, a scalar, a dict whose values are all
\* falsy, a value that holds an error keyword, an empty list, or an
\* exception of the backend call.
LlmFailure == [ok |-> FALSE]

\* A reply that decodes to a non-empty list: it passes the checks and is
\* handed to the store operation of the stage, which raises on it.
ListPayload == [ok |-> FALSE, list |-> TRUE]

IsListPayload(llm) == "list" \in DOMAIN llm

extract_missing_scenario_info(file, llm) ==
    LET empty_fields == find_empty_fields(file)
    IN IF ~AnyEmptyFields(empty_fields) THEN [file |-> file, ok |-> FALSE]
       ELSE IF ~llm.ok THEN [file |-> file, ok |-> FALSE]
       ELSE LET r == update_missing_fields(file, llm.data, empty_fields)
            IN [file |-> r.file, ok |-> r.updated]

\* An extraction that stores an empty record when the reply has no payload.
extract_and_save_scenario_info_stores_unparsed(file, llm) ==
    LET current_stage == get_current_stage(file)
        scenario_data == load_scenario(file)
    IN IF current_stage \in {OVERVIEW, COMPLETED} \/ ~scenario_data.exists
       THEN [file |-> file, ok |-> FALSE]
       ELSE LET cat == StageCategory(current_stage)
                blank == [k \in CategoryFields(cat) |-> ""]
            IN [file |-> save_scenario([scenario_data EXCEPT
                            ![cat] = Append(@, WithId(blank, Len(@) + 1))]),
                ok |-> llm.ok]

\* The except clauses return False: json.JSONDecodeError for a text that
\* does not decode, Exception for everything else, the store operation
\* raising on a list included (update_scenario_overview has then already
\* created the record of a user who had none).
extract_and_save_scenario_info(file, llm) ==
    LET current_stage == get_current_stage(file)
    IN IF current_stage = COMPLETED THEN [file |-> file, ok |-> FALSE]
       ELSE IF ~llm.ok
       THEN [file |-> IF /\ IsListPayload(llm)
                         /\ current_stage = OVERVIEW
                         /\ ~load_scenario(file).exists
                      THEN init_scenario_creation
                      ELSE file,
             ok |-> FALSE]
       ELSE [file |->
                CASE current_stage = OVERVIEW -> update_scenario_overview(file, llm.data)
                  [] current_stage = EPISODES -> add_episode(file, llm.data)
                  [] current_stage = NPCS -> add_npc(file, llm.data)
                  [] current_stage = HINTS -> add_hint(file, llm.data)
                  [] current_stage = DUNGEONS -> add_dungeon(file, llm.data),
             ok |-> TRUE]

get_next_session(current_session) ==
    CASE current_session = SESSION_CHARACTER -> SESSION_SCENARIO
      [] current_session = SESSION_SCENARIO -> SESSION_ADVENTURE
      [] current_session = SESSION_ADVENTURE -> SESSION_DUNGEON
      [] current_session = SESSION_DUNGEON -> SESSION_PARTY
      [] current_session = SESSION_PARTY -> SESSION_PREPARATION
      [] current_session = SESSION_PARTY_FORMATION -> SESSION_PREPARATION
      [] current_session = SESSION_PREPARATION -> SESSION_PLAY
      [] OTHER -> SESSION_PLAY

----------------------------------------------------------------------------
\* save_session_data(user_id, session_type, data).

\* The sessions whose record handle_message saves on completion.
MacroSessions == {SESSION_ADVENTURE, SESSION_DUNGEON, SESSION_PARTY,
                  SESSION_PARTY_FORMATION, SESSION_PREPARATION}

\* Values of `data`: {} (falsy); a dict of string keys, lists and strings,
\* as handle_message builds it; a dict that holds a tuple or a non-string
\* key, which json accepts; a dict that holds a value json cannot encode.
DataValues == {"empty", "record", "tuple_record", "object_record"}

\* Values of `session_type`: "" (falsy), a string, a truthy non-string.
CategoryValues == {"empty", "name", "nonstring"}

\* A serialisation that gives back every value as it was.
JsonImageIdentity(data) == data

\* What json.load returns for the text json.dump wrote: tuples come back
\* as lists and non-string keys as strings.
JsonImage(data) == IF data = "tuple_record" THEN "list_record" ELSE data

\* A file that holds the whole text of a record written earlier.
OldFile == [image |-> "old_record", complete |-> TRUE]

\* The two paths of a save: disk = [final, temp].
\* A save that opens the final path itself and writes into it.
open_in_place(disk, data) ==
    [disk EXCEPT !.final = [image |-> JsonImage(data), complete |-> FALSE]]

\* with open(temp_filepath, 'w'): the temporary file is created or truncated.
open_temp(disk, data) ==
    [disk EXCEPT !.temp = [image |-> JsonImage(data), complete |-> FALSE]]

\* json.dump, flush, fsync, close: the temporary file holds the whole text.
dump_temp(disk) == [disk EXCEPT !.temp = [@ EXCEPT !.complete = TRUE]]

\* if os.path.exists(filepath): os.remove(filepath)
remove_old(disk) == [disk EXCEPT !.final = NoFile]

\* os.rename(temp_filepath, filepath)
rename_temp(disk) == [final |-> disk.temp, temp |-> NoFile]

\* The except clauses of the write block: the temporary file is removed.
cleanup_temp(disk) == [disk EXCEPT !.temp = NoFile]

\* The final check: the file exists and json.load reads it.
verify_file(disk) == disk.final # NoFile /\ disk.final.complete

\* How a call of save_session_data ends: it returns True or False, or an
\* exception leaves it ("raised").
RETURN_TRUE == "true"
RETURN_FALSE == "false"
RAISED == "raised"

\* save_session_data without its outer `except Exception`.
on_exception_no_outer(block, exc) ==
    IF block = "makedirs" /\ exc \in {"PermissionError", "OSError"} THEN RETURN_FALSE
    ELSE IF block = "serialize" /\ exc \in {"TypeError", "ValueError"} THEN RETURN_FALSE
    ELSE IF block = "write" THEN RETURN_FALSE
    ELSE RAISED

\* The value save_session_data returns when `exc` is raised in `block`:
\* the block's own except clauses, then the outer `except Exception`.
on_exception(block, exc) ==
    IF block = "makedirs" /\ exc \in {"PermissionError", "OSError"} THEN RETURN_FALSE
    ELSE IF block = "serialize" /\ exc \in {"TypeError", "ValueError"} THEN RETURN_FALSE
    ELSE IF block = "write" THEN RETURN_FALSE
    ELSE RETURN_FALSE

\* A handler that moves on whatever save_session_data returned.
session_after_save_unchecked(session, save_result) == get_next_session(session)

\* handle_message after save_session_data returned: the next session type.
session_after_save(session, save_result) ==
    IF save_result THEN get_next_session(session) ELSE session

\* handle_message after save_session_data returned: the scenario record.
record_after_save(file, session, save_result) ==
    IF save_result /\ get_next_session(session) = SESSION_PLAY
    THEN update_episode_progress(file, 1, EPISODE_IN_PROGRESS)
    ELSE file

----------------------------------------------------------------------------
\* The context budget: truncate_text_safely, check_context_size,
\* optimize_context_parts.  A block is [ratio, tail, len, cut]: ratio is the
\* share (in hundredths) of the first priority keyword found in its text, 0
\* when it holds none; tail is TRUE when its text holds "대화 내용" or "상황
\* 요약"; len is the length of its text; cut tells which end was kept when it
\* was truncated.

LLM_SAFE_CONTEXT_LENGTH == 7000

\* len("...(이전 내용 생략)...\n") = len("\n...(이후 내용 생략)...")
ELISION_MARKER_LENGTH == 17

\* The shares of priority_keywords, in hundredths; "상황 요약" is the third.
PriorityRatios == {30, 25, 20, 15, 10}
SUMMARY_RATIO == 20

\* text[-max_length:] is the last max_length characters, and the whole text
\* when max_length is 0; text[:max_length] is the first max_length characters.
truncate_text_safely(part, max_length, preserve_end) ==
    IF part.len <= max_length THEN part
    ELSE IF preserve_end
    THEN [part EXCEPT !.cut = "tail",
                      !.len = ELISION_MARKER_LENGTH
                              + (IF max_length = 0 THEN part.len ELSE max_length)]
    ELSE [part EXCEPT !.cut = "head", !.len = max_length + ELISION_MARKER_LENGTH]

RECURSIVE SumLen(_)
SumLen(parts) ==
    IF parts = <<>> THEN 0 ELSE Head(parts).len + SumLen(Tail(parts))

\* A budget check that sends every list to the allocation loop.
is_oversized_always(parts, max_length) == TRUE

\* check_context_size(...)["is_oversized"]
is_oversized(parts, max_length) == SumLen(parts) > max_length

\* An allocation that gives every block the even share.
allocated_length_even(part, count, max_length) == max_length \div count

\* allocated_length of a block: the even share, or int(max_total_length * ratio).
allocated_length(part, count, max_length) ==
    IF part.ratio = 0 THEN max_length \div count
    ELSE (max_length * part.ratio) \div 100

\* A loop that goes on after the budget is used up, giving the later
\* blocks nothing but the marker.
RECURSIVE optimize_from_no_stop(_, _, _, _, _)
optimize_from_no_stop(parts, i, remaining_length, max_length, optimized) ==
    IF i > Len(parts) THEN optimized
    ELSE LET part == parts[i]
             left == IF remaining_length > 0 THEN remaining_length ELSE 0
             actual_length ==
                 LET a == allocated_length(part, Len(parts), max_length)
                     b == IF a < left THEN a ELSE left
                 IN IF b < part.len THEN b ELSE part.len
             emitted == IF part.len > actual_length
                        THEN truncate_text_safely(part, actual_length, part.tail)
                        ELSE part
         IN optimize_from_no_stop(parts, i + 1, remaining_length - emitted.len,
                                  max_length, Append(optimized, emitted))

\* The loop of optimize_context_parts from block i on.
RECURSIVE optimize_from(_, _, _, _, _)
optimize_from(parts, i, remaining_length, max_length, optimized) ==
    IF i > Len(parts) \/ remaining_length <= 0 THEN optimized
    ELSE LET part == parts[i]
             actual_length ==
                 LET a == allocated_length(part, Len(parts), max_length)
                     b == IF a < remaining_length THEN a ELSE remaining_length
                 IN IF b < part.len THEN b ELSE part.len
             emitted == IF part.len > actual_length
                        THEN truncate_text_safely(part, actual_length, part.tail)
                        ELSE part
         IN optimize_from(parts, i + 1, remaining_length - emitted.len,
                          max_length, Append(optimized, emitted))

optimize_context_parts(parts, max_length) ==
    IF parts = <<>> THEN <<>>
    ELSE IF ~is_oversized(parts, max_length) THEN parts
    ELSE optimize_from(parts, 1, max_length, max_length, <<>>)

----------------------------------------------------------------------------
\* split_long_message and send_long_message.  A text is the sequence of the
\* lengths of its lines (text.split('\n')); a chunk and a payload are
\* lengths.

TELEGRAM_MAX_MESSAGE_LENGTH == 4096
SAFE_MESSAGE_LENGTH == 4000

\* len("[마스터]\n\n"), len("[계속]\n\n"), len("...")
PREFIX_LENGTH == 7
CONTINUED_PREFIX_LENGTH == 6
ELLIPSIS_LENGTH == 3

\* len(text): the lines and the newlines between them.
RECURSIVE TextLength(_)
TextLength(lines) ==
    IF Len(lines) = 1 THEN lines[1]
    ELSE lines[1] + 1 + TextLength(Tail(lines))

\* while len(line) > max_length: chunks.append(line[:max_length]);
\* line = line[max_length:]
RECURSIVE force_split(_, _, _)
force_split(line, max_length, chunks) ==
    IF line > max_length
    THEN force_split(line - max_length, max_length, Append(chunks, max_length))
    ELSE [chunks |-> chunks, line |-> line]

\* if current_chunk: chunks.append(current_chunk); current_chunk = line
replace_chunk(line, max_length, current_chunk, chunks) ==
    [chunks |-> Append(chunks, current_chunk), current_chunk |-> line]

\* The loop over the lines from line i on; "" is the chunk of length 0.
RECURSIVE split_lines(_, _, _, _, _)
split_lines(lines, i, max_length, current_chunk, chunks) ==
    IF i > Len(lines)
    THEN IF current_chunk # 0 THEN Append(chunks, current_chunk) ELSE chunks
    ELSE LET line == lines[i]
         IN IF current_chunk + line + 1 <= max_length
            THEN split_lines(lines, i + 1, max_length,
                             IF current_chunk # 0 THEN current_chunk + 1 + line
                             ELSE line,
                             chunks)
            ELSE IF current_chunk # 0
            THEN LET r == replace_chunk(line, max_length, current_chunk, chunks)
                 IN split_lines(lines, i + 1, max_length, r.current_chunk, r.chunks)
            ELSE LET cut == force_split(line, max_length, chunks)
                 IN split_lines(lines, i + 1, max_length, cut.line, cut.chunks)

split_long_message(lines, max_length) ==
    IF TextLength(lines) <= max_length THEN <<TextLength(lines)>>
    ELSE split_lines(lines, 1, max_length, 0, <<>>)

\* message.reply_text raises when the text is longer than the transport
\* takes.
Rejected(payload) == payload > TELEGRAM_MAX_MESSAGE_LENGTH

\* The loop of send_long_message from chunk i on: the payloads given to
\* reply_text, ending with the first one that raises.
RECURSIVE send_chunks(_, _, _)
send_chunks(chunks, i, sent) ==
    IF i > Len(chunks) THEN sent
    ELSE LET payload == chunks[i] + (IF i = 1 THEN PREFIX_LENGTH
                                     ELSE CONTINUED_PREFIX_LENGTH)
         IN IF Rejected(payload) THEN Append(sent, payload)
            ELSE send_chunks(chunks, i + 1, Append(sent, payload))

\* send_long_message(message, text) with the default prefix: the payloads
\* given to reply_text, in order; after one that raises, the first
\* SAFE_MESSAGE_LENGTH characters of the text with "...".
send_long_message(lines) ==
    LET chunks == split_long_message(lines, SAFE_MESSAGE_LENGTH)
        text == TextLength(lines)
        sent == IF Len(chunks) = 1 THEN <<PREFIX_LENGTH + text>>
                ELSE send_chunks(chunks, 1, <<>>)
        kept == IF text < SAFE_MESSAGE_LENGTH THEN text ELSE SAFE_MESSAGE_LENGTH
    IN IF Rejected(sent[Len(sent)])
       THEN Append(sent, PREFIX_LENGTH + kept + ELLIPSIS_LENGTH)
       ELSE sent

----------------------------------------------------------------------------
\* extract_session_completion_info(text, session_type, conversation_history).
\* A turn of the conversation is [id, motif, round]: its position, the
\* repetition keyword it holds ("none" or a keyword), the number after
\* "라운드" in it (0 when it has none).  A text is [keywords_of]: the session
\* types one of whose completion keywords it holds.

\* The session types of completion_keywords and of session_descriptions.
CompletionSessions == MacroSessions \cup {SESSION_SCENARIO}

Sessions == CompletionSessions \cup {SESSION_OTHER, SESSION_CHARACTER, SESSION_PLAY}

\* What generate_answer_without_rag does with the judge prompt: a text that
\* holds "완료", "진행중", both or neither, or an exception.
BackendReplies == {"done", "in_progress", "both", "neither"}
BackendFailure == "raises"
BackendOutcomes == BackendReplies \cup {BackendFailure}

COMPLETION_TURNS == 5

\* conversation_history[-n:] if len(conversation_history) >= n else
\* conversation_history
recent_turns(conversation_history, n) ==
    IF Len(conversation_history) >= n
    THEN SubSeq(conversation_history, Len(conversation_history) - n + 1,
                Len(conversation_history))
    ELSE conversation_history

NoPrompt == [description |-> "none", turns |-> <<>>, text |-> "none"]

\* A reading of the reply that takes "완료" only where "진행중" is absent.
has_completion_marker_alone(completion_result) == completion_result = "done"

\* "완료" in completion_result
has_completion_marker(completion_result) == completion_result \in {"done", "both"}

\* The judge call with no except clause around it.
judge_uncaught(outcome) ==
    IF outcome = BackendFailure THEN RAISED
    ELSE IF has_completion_marker(outcome) THEN RETURN_TRUE ELSE RETURN_FALSE

\* try: return "완료" in generate_answer_without_rag(...)
\* except Exception: return False
judge(outcome) ==
    IF outcome = BackendFailure THEN RETURN_FALSE
    ELSE IF has_completion_marker(outcome) THEN RETURN_TRUE ELSE RETURN_FALSE

\* A check that asks the backend before it looks for keywords.
extract_session_completion_info_judge_first(text, session, conversation_history, outcome) ==
    IF session \in CompletionSessions
    THEN [result |-> IF session \in text.keywords_of THEN RETURN_TRUE
                     ELSE judge(outcome),
          llm_calls |-> 1,
          prompt |-> [description |-> session,
                      turns |-> recent_turns(conversation_history, COMPLETION_TURNS),
                      text |-> text]]
    ELSE [result |-> RETURN_FALSE, llm_calls |-> 0, prompt |-> NoPrompt]

\* The value returned, the number of backend calls made and the prompt sent.
extract_session_completion_info(text, session, conversation_history, outcome) ==
    IF session \in CompletionSessions /\ session \in text.keywords_of
    THEN [result |-> RETURN_TRUE, llm_calls |-> 0, prompt |-> NoPrompt]
    ELSE IF session \in CompletionSessions
    THEN [result |-> judge(outcome),
          llm_calls |-> 1,
          prompt |-> [description |-> session,
                      turns |-> recent_turns(conversation_history, COMPLETION_TURNS),
                      text |-> text]]
    ELSE [result |-> RETURN_FALSE, llm_calls |-> 0, prompt |-> NoPrompt]

----------------------------------------------------------------------------
\* check_repetitive_situation_in_context(scenario_context, conversation_history).
\* A scenario context is [text, episodes]: it is not the empty string; it
\* holds the word "에피소드".

\* Three of repetitive_keywords: "던전", "다시", "또다시"; the second is a
\* substring of the third.
RepetitiveKeywords == {"dungeon", "again", "once_again"}

REPETITION_TURNS == 10
REPETITION_COUNT == 3
REPETITION_ROUND == 5

\* recent_text.count(keyword) for the text of one turn.
KeywordCount(turn, keyword) ==
    IF turn.motif = keyword THEN 1
    ELSE IF keyword = "again" /\ turn.motif = "once_again" THEN 1
    ELSE 0

RECURSIVE SumCount(_, _)
SumCount(turns, keyword) ==
    IF turns = <<>> THEN 0
    ELSE KeywordCount(Head(turns), keyword) + SumCount(Tail(turns), keyword)

\* max(int(r) for r in round_matches), 0 when the text has no round number.
RECURSIVE MaxRound(_)
MaxRound(turns) ==
    IF turns = <<>> THEN 0
    ELSE LET rest == MaxRound(Tail(turns))
         IN IF Head(turns).round > rest THEN Head(turns).round ELSE rest

\* A check that reads the whole conversation.
repetition_window_all(conversation_history) == conversation_history

\* recent_conversations
repetition_window(conversation_history) ==
    recent_turns(conversation_history, REPETITION_TURNS)

check_repetitive_situation_in_context(scenario_context, conversation_history) ==
    LET recent_conversations == repetition_window(conversation_history)
    IN \/ \E keyword \in RepetitiveKeywords :
            SumCount(recent_conversations, keyword) >= REPETITION_COUNT
       \/ /\ scenario_context.episodes
          /\ MaxRound(recent_conversations) >= REPETITION_ROUND

----------------------------------------------------------------------------
\* Episode progress: get_episode_status, get_next_episode_info,
\* advance_to_next_episode, force_episode_progression_context.

EPISODE_NOT_STARTED == "not_started"

\* episode_progress.get(episode_key, {}).get("status")
episode_status(scenario_data, episode_id) ==
    IF episode_id \in DOMAIN scenario_data.episode_progress
    THEN scenario_data.episode_progress[episode_id]
    ELSE EPISODE_NOT_STARTED

\* Position in the episode list of the first episode in progress, 0 when
\* there is none (current_episode_index, counted from 1).
current_episode_index(scenario_data) ==
    LET running == {i \in DOMAIN scenario_data.episodes :
                      episode_status(scenario_data, scenario_data.episodes[i].id)
                        = EPISODE_IN_PROGRESS}
    IN IF running = {} THEN 0
       ELSE CHOOSE i \in running : \A j \in running : i <= j

NoEpisode == [id |-> 0]

get_next_episode_info(file) ==
    LET scenario_data == load_scenario(file)
    IN IF ~scenario_data.exists THEN NoEpisode
       ELSE IF scenario_data.episodes = <<>> THEN NoEpisode
       ELSE LET current == current_episode_index(scenario_data)
            IN IF current >= 1 /\ current + 1 <= Len(scenario_data.episodes)
               THEN scenario_data.episodes[current + 1]
               ELSE NoEpisode

\* An advance that marks the next episode without completing the current one.
advance_to_next_episode_keeps_current(file) ==
    LET scenario_data == load_scenario(file)
        current == IF scenario_data.exists THEN current_episode_index(scenario_data)
                   ELSE 0
    IN IF current >= 1 /\ current + 1 <= Len(scenario_data.episodes)
       THEN update_episode_progress(file, scenario_data.episodes[current + 1].id,
                                    EPISODE_IN_PROGRESS)
       ELSE file

\* The second definition of the class (the one in force): the record is
\* saved only when a next episode exists.
advance_to_next_episode(file) ==
    LET scenario_data == load_scenario(file)
    IN IF ~scenario_data.exists THEN file
       ELSE IF scenario_data.episodes = <<>> THEN file
       ELSE LET current == current_episode_index(scenario_data)
            IN IF current >= 1 /\ current + 1 <= Len(scenario_data.episodes)
               THEN LET done == scenario_data.episodes[current].id
                        next == scenario_data.episodes[current + 1].id
                    IN save_scenario([scenario_data EXCEPT !.episode_progress =
                         [k \in DOMAIN @ \cup {done, next} |->
                            IF k = next THEN EPISODE_IN_PROGRESS
                            ELSE IF k = done THEN EPISODE_COMPLETED
                            ELSE @[k]]])
               ELSE file

\* The number of generic templates in progression_prompts.
PROGRESSION_PROMPTS == 3

\* The directive returned and the record left behind; `choice` is what
\* random.choice picks.
force_episode_progression_context(file, scenario_context, choice) ==
    LET next_episode_info == get_next_episode_info(file)
    IN IF next_episode_info = NoEpisode
       THEN [directive |-> [kind |-> "generic", template |-> choice],
             file |-> file]
       ELSE [directive |-> [kind |-> "next_episode",
                            title |-> next_episode_info.title,
                            objective |-> next_episode_info.objective,
                            scenario_context |-> scenario_context],
             file |-> advance_to_next_episode(file)]

\* update_session_progress: the session type is entered in the record's
\* sessions (its play count and dates are not kept here).
update_session_progress(file, session) ==
    LET scenario_data == load_scenario(file)
    IN IF ~scenario_data.exists THEN file
       ELSE save_scenario([scenario_data EXCEPT !.sessions = @ \cup {session}])

\* The text get_scenario_context_for_mastering returns: "" without a record
\* or without content; the episode list is headed "에피소드 구성".  (The call
\* also updates the session progress: update_session_progress.)
get_scenario_context_for_mastering(file) ==
    LET scenario_data == load_scenario(file)
    IN IF ~scenario_data.exists THEN [text |-> FALSE, episodes |-> FALSE]
       ELSE [text |-> \/ scenario_data.overview["theme"] # ""
                      \/ scenario_data.episodes # <<>>
                      \/ scenario_data.npcs # <<>>
                      \/ scenario_data.dungeons # <<>>,
             episodes |-> scenario_data.episodes # <<>>]

----------------------------------------------------------------------------
\* Inputs: what the language model may reply.

OverviewData(empty_keys) ==
    [k \in OverviewChecked |-> IF k \in empty_keys THEN "" ELSE "v"]

\* Parsed overview payloads: a complete one, one with only the four fields
\* the completion predicate reads, and one that lacks one of those.
ParsedOverviews ==
    {OverviewData(e) : e \in {{}, {"title", "rewards"}, {"objective"}}}

RecordData(cat, empty_keys) ==
    [k \in CategoryFields(cat) |-> IF k \in empty_keys THEN "" ELSE "v"]

DetailField(cat) ==
    CASE cat = "episodes" -> "objective"
      [] cat = "npcs" -> "personality"
      [] cat = "hints" -> "discovery_method"
      [] cat = "dungeons" -> "description"

\* Number of stored records that have an empty field.
IncompleteCount(file) ==
    IF ~file.exists THEN 0
    ELSE LET Count(cat) ==
               Cardinality({i \in 1..Len(file[cat]) :
                               EmptyOf(file[cat][i], CategoryFields(cat)) # {}})
         IN Count("episodes") + Count("npcs") + Count("hints") + Count("dungeons")

\* Parsed content payloads: a complete record and one with an empty field.
ParsedRecords(file, cat) ==
    {RecordData(cat, {})} \cup
    (IF IncompleteCount(file) < MaxIncomplete
     THEN {RecordData(cat, {DetailField(cat)})} ELSE {})

\* Replies to the extraction prompt of the record's current stage.
ExtractionOutputs(file) ==
    LET stage == get_current_stage(file)
        cat == StageCategory(stage)
    IN {LlmFailure} \cup
       (IF stage = OVERVIEW THEN {[ok |-> TRUE, data |-> d] : d \in ParsedOverviews}
        ELSE IF stage = COMPLETED THEN {}
        ELSE IF Len(file[cat]) < MaxRecords
        THEN {[ok |-> TRUE, data |-> d] : d \in ParsedRecords(file, cat)}
        ELSE {})

\* Replies to the fill-missing prompt: unusable, or a value for every field.
FillAll(file) ==
    IF ~file.exists THEN [overview |-> OverviewData({})]
    ELSE [overview |-> OverviewData({}),
          episodes |-> [i \in 1..Len(file.episodes) |-> RecordData("episodes", {})],
          npcs |-> [i \in 1..Len(file.npcs) |-> RecordData("npcs", {})],
          hints |-> [i \in 1..Len(file.hints) |-> RecordData("hints", {})],
          dungeons |-> [i \in 1..Len(file.dungeons) |-> RecordData("dungeons", {})]]

FillOutputs(file) == {LlmFailure, [ok |-> TRUE, data |-> FillAll(file)]}

----------------------------------------------------------------------------
\* handle_message, session "scenario creation".

\* Lines 1777-1794: the first message of a user without a record that names
\* a preference creates the record and stores the preference.
record_preferences(file, preference_keyword) ==
    IF get_current_stage(file) = OVERVIEW /\ ~load_scenario(file).exists /\ preference_keyword
    THEN save_scenario(init_scenario_creation)
    ELSE file

\* The record after the extraction from the user's text (line 1809).
after_text_extraction(file, preference_keyword, llm_text) ==
    extract_and_save_scenario_info(record_preferences(file, preference_keyword), llm_text).file

\* Lines 1820-1850: the empty fields that belong to the current stage.
relevant_empty_fields(file, current_stage) ==
    LET empty_fields == find_empty_fields(file)
        key == IF current_stage = OVERVIEW THEN "overview" ELSE StageCategory(current_stage)
    IN IF current_stage = COMPLETED THEN FALSE
       ELSE InEmptyFields(empty_fields, key)

\* reply_extraction without the completion check.
reply_extraction_ungated(file, manager, store, llm_reply) ==
    LET r == extract_and_save_scenario_info(file, llm_reply)
        current_stage == get_current_stage(r.file)
        next_stage == get_next_stage(current_stage)
    IN IF r.ok /\ load_scenario(r.file).exists
          /\ next_stage # COMPLETED
       THEN set_current_stage(r.file, next_stage)
       ELSE r.file

\* reply_extraction that also stores Completed.
reply_extraction_stores_completed(file, manager, store, llm_reply) ==
    LET r == extract_and_save_scenario_info(file, llm_reply)
        current_stage == get_current_stage(r.file)
        next_stage == get_next_stage(current_stage)
    IN IF r.ok /\ load_scenario(r.file).exists
          /\ is_stage_complete(r.file, manager, store, current_stage)
       THEN set_current_stage(r.file, next_stage)
       ELSE r.file

\* Lines 2059-2084: extraction from the generated reply, then the gated advance.
reply_extraction(file, manager, store, llm_reply) ==
    LET r == extract_and_save_scenario_info(file, llm_reply)
        current_stage == get_current_stage(r.file)
        next_stage == get_next_stage(current_stage)
    IN IF r.ok /\ load_scenario(r.file).exists
          /\ is_stage_complete(r.file, manager, store, current_stage)
          /\ next_stage # COMPLETED
       THEN set_current_stage(r.file, next_stage)
       ELSE r.file

\* handle_message that makes its second completion check after the first
\* one has advanced the stage.
handle_message_checks_again(file, manager, store, input) ==
    LET f0 == record_preferences(file, input.preference_keyword)
    IN IF input.fill_keyword
       THEN [file |-> extract_missing_scenario_info(f0, input.llm_fill).file,
             session |-> SESSION_SCENARIO]
       ELSE
       LET f1 == extract_and_save_scenario_info(f0, input.llm_text).file
           current_stage == get_current_stage(f1)
           stage_complete == is_stage_complete(f1, manager, store, current_stage)
           next_stage == get_next_stage(current_stage)
       IN IF ~stage_complete /\ relevant_empty_fields(f1, current_stage)
          THEN [file |-> extract_missing_scenario_info(f1, input.llm_fill).file,
                session |-> SESSION_SCENARIO]
          ELSE IF stage_complete /\ next_stage = COMPLETED
          THEN IF AnyEmptyFields(find_empty_fields(f1))
               THEN LET r == extract_missing_scenario_info(f1, input.llm_fill)
                    IN [file |-> r.file,
                        session |-> IF r.ok THEN get_next_session(SESSION_SCENARIO)
                                    ELSE SESSION_SCENARIO]
               ELSE [file |-> f1, session |-> get_next_session(SESSION_SCENARIO)]
          ELSE IF stage_complete
          THEN LET f2 == set_current_stage(f1, next_stage)
                   further == get_next_stage(next_stage)
               IN [file |-> IF /\ is_stage_complete(f2, manager, store, next_stage)
                               /\ further # COMPLETED
                            THEN set_current_stage(f2, further) ELSE f2,
                   session |-> SESSION_SCENARIO]
          ELSE [file |-> reply_extraction(f1, manager, store, input.llm_reply),
                session |-> SESSION_SCENARIO]

\* input = [preference_keyword, fill_keyword, llm_text, llm_fill, llm_reply]
handle_message(file, manager, store, input) ==
    LET f0 == record_preferences(file, input.preference_keyword)
    IN IF input.fill_keyword
       THEN [file |-> extract_missing_scenario_info(f0, input.llm_fill).file,
             session |-> SESSION_SCENARIO]
       ELSE
       LET f1 == extract_and_save_scenario_info(f0, input.llm_text).file
           current_stage == get_current_stage(f1)
           stage_complete == is_stage_complete(f1, manager, store, current_stage)
           next_stage == get_next_stage(current_stage)
       IN IF ~stage_complete /\ relevant_empty_fields(f1, current_stage)
          THEN [file |-> extract_missing_scenario_info(f1, input.llm_fill).file,
                session |-> SESSION_SCENARIO]
          ELSE IF stage_complete /\ next_stage = COMPLETED
          THEN IF AnyEmptyFields(find_empty_fields(f1))
               THEN LET r == extract_missing_scenario_info(f1, input.llm_fill)
                    IN [file |-> r.file,
                        session |-> IF r.ok THEN get_next_session(SESSION_SCENARIO)
                                    ELSE SESSION_SCENARIO]
               ELSE [file |-> f1, session |-> get_next_session(SESSION_SCENARIO)]
          ELSE IF stage_complete
          THEN [file |-> set_current_stage(f1, next_stage), session |-> SESSION_SCENARIO]
          ELSE [file |-> reply_extraction(f1, manager, store, input.llm_reply),
                session |-> SESSION_SCENARIO]

\* The number of extract_and_save_scenario_info calls handle_message makes
\* on the input: none on a fill request, one when it returns after the
\* completion check, two when it goes on to the generated reply.
extraction_attempts(file, manager, store, input) ==
    LET f0 == record_preferences(file, input.preference_keyword)
        f1 == extract_and_save_scenario_info(f0, input.llm_text).file
        current_stage == get_current_stage(f1)
        stage_complete == is_stage_complete(f1, manager, store, current_stage)
    IN IF input.fill_keyword THEN 0
       ELSE IF stage_complete \/ relevant_empty_fields(f1, current_stage) THEN 1
       ELSE 2

----------------------------------------------------------------------------
\* multi_bot_test: the master session and the scenario generation loop.

\* MAX_SCENARIO_STEPS
MAX_SCENARIO_STEPS == 3

\* stages = ["개요", "에피소드", "NPC", "힌트", "던전"]
RigStages == <<OVERVIEW, EPISODES, NPCS, HINTS, DUNGEONS>>

RigIdle == [pc |-> "idle", i |-> 0, found |-> "none"]

NoWalk == [stage |-> OVERVIEW, calls |-> 0]

NoProbe == [stage |-> "none", result |-> FALSE]

\* Steps 4-6 of setup_master_session.
setup_master_session ==
    update_episode_progress(
        set_current_stage(init_scenario_creation, OVERVIEW), 1, EPISODE_IN_PROGRESS)

\* create_npcs_for_scenario(user_id, scenario_data, npc_count=5)
NPC_COUNT == 5

\* The store after generate_npcs_for_current_scenario(user_id): enough NPCs
\* are kept, otherwise npc_count NPCs are created if the subsystem succeeds.
generate_npcs_for_current_scenario(file, manager, store, npc_success) ==
    IF ~manager \/ ~load_scenario(file).exists THEN store
    ELSE IF store >= 3 THEN store
    ELSE IF npc_success THEN NPC_COUNT ELSE store

\* The store after ensure_scenario_npcs(user_id): npc_manager.ensure_npcs_exist
\* runs only with a subsystem and a record; what it leaves is an input.
ensure_scenario_npcs(file, manager, store, store_after) ==
    IF ~manager \/ ~load_scenario(file).exists THEN store ELSE store_after

----------------------------------------------------------------------------
\* The state machine.

NoAppend == [n |-> 0, cat |-> "none", fault |-> "none"]

\* pc: the position in save_session_data; caller: "api" or "handler"
\* (handle_message); before: the final path when the call began; fault: the
\* exception a step raised; renamed: os.rename has completed.
SaveIdle == [pc |-> "idle", caller |-> "none", user_ok |-> TRUE, category |-> "name",
             data |-> "empty", before |-> NoFile, fault |-> "none",
             renamed |-> FALSE, result |-> "none"]

\* What a reader of the final path last read, and the position of the
\* running save_session_data call when it read.
NoRead == [file |-> NoFile, at |-> "never"]

\* No save_session_data call is running and no session file exists.
StoreIdle ==
    /\ append_call = NoAppend
    /\ session_file = NoFile
    /\ temp_file = NoFile
    /\ save = SaveIdle
    /\ reader = NoRead

\* The value of optimized_parts before optimize_context_parts has returned.
NotOptimized == <<[ratio |-> 0, tail |-> FALSE, len |-> 0, cut |-> "unset"]>>

\* No completion check and no repetition check has been made.
NoCompletion == [called |-> FALSE]
NoRepetition == [called |-> FALSE]

\* Nothing has been said.
TalkIdle ==
    /\ user_conversations = <<>>
    /\ completion = NoCompletion
    /\ repetition = NoRepetition

\* No extraction and no transport call has been made.
NoExtraction == [called |-> FALSE]

NoTransport == [called |-> FALSE]

\* generate_master_response_with_scenario_support is not running. pc: its
\* position; i: the index of the scenario request; scenario_responses: the
\* length of the list of that name; calls: the generation calls made, with
\* the function called, whether asyncio.wait_for bounds it, and its outcome;
\* response: "reply" for a reply of handle_message, "local" for the value of
\* generate_simple_master_response.
NoGeneration == [pc |-> "idle", is_initial |-> FALSE, i |-> 0,
                 scenario_responses |-> 0, calls |-> <<>>, response |-> "none"]

\* continuous_conversation before its loop: round_number = 1, and the
\* attribute error_count of the function is not set (getattr gives 0);
\* ended: what ended the loop.
NoConversation == [running |-> FALSE, round_number |-> 1, error_count |-> 0,
                   ended |-> "none"]

IoIdle ==
    /\ extraction = NoExtraction
    /\ transport = NoTransport
    /\ generation = NoGeneration
    /\ conversation = NoConversation

BudgetIdle ==
    /\ context_parts = <<>>
    /\ max_total_length = LLM_SAFE_CONTEXT_LENGTH
    /\ optimized_parts = NotOptimized

Init ==
    /\ scenario_file = NoScenario
    /\ npc_manager \in BOOLEAN
    /\ npc_store = 0
    /\ session_type = SESSION_OTHER
    /\ rig = RigIdle
    /\ walk = NoWalk
    /\ probe = NoProbe
    /\ StoreIdle
    /\ BudgetIdle
    /\ TalkIdle
    /\ IoIdle

\* The user enters the scenario creation session (session_manager.log_session).
SessionCommand ==
    /\ rig.pc = "idle"
    /\ session_type # SESSION_SCENARIO
    /\ session_type' = SESSION_SCENARIO
    /\ UNCHANGED <<scenario_file, npc_manager, npc_store, rig, walk, probe>>
    /\ UNCHANGED <<store_vars, budget_vars, talk_vars>>
    /\ UNCHANGED io_vars

\* The outcomes of one run of handle_message, over every possible input.
RepliesAfter(file, manager, store, p, k, x1) ==
    LET f1 == after_text_extraction(file, p, x1)
    IN {handle_message(file, manager, store,
            [preference_keyword |-> p, fill_keyword |-> k,
             llm_text |-> x1, llm_fill |-> m, llm_reply |-> x2]) :
          m \in FillOutputs(f1), x2 \in ExtractionOutputs(f1)}

MessageResults(file, manager, store) ==
    UNION {UNION {RepliesAfter(file, manager, store, p, k, x1) :
                     x1 \in ExtractionOutputs(record_preferences(file, p))} :
              p \in (IF file.exists THEN {FALSE} ELSE BOOLEAN), k \in BOOLEAN}

\* A user's message reaches the pipeline in the scenario creation session.
HandleMessage ==
    /\ rig.pc = "idle"
    /\ session_type = SESSION_SCENARIO
    /\ \E r \in MessageResults(scenario_file, npc_manager, npc_store) :
         /\ scenario_file' = r.file
         /\ session_type' = r.session
    /\ UNCHANGED <<npc_manager, npc_store, rig, walk, probe>>
    /\ UNCHANGED <<store_vars, budget_vars, talk_vars>>
    /\ UNCHANGED io_vars

\* generate_npcs_for_current_scenario is called for the user.
GenerateNpcs ==
    /\ \E npc_success \in BOOLEAN :
         npc_store' = generate_npcs_for_current_scenario(
                          scenario_file, npc_manager, npc_store, npc_success)
    /\ npc_store' # npc_store
    /\ UNCHANGED <<scenario_file, npc_manager, session_type, rig, walk, probe>>
    /\ UNCHANGED <<store_vars, budget_vars, talk_vars>>
    /\ UNCHANGED io_vars

\* continuous_conversation starts: setup_master_session.
SetupMasterSession ==
    /\ rig.pc = "idle"
    /\ scenario_file' = setup_master_session
    /\ session_type' = SESSION_SCENARIO
    /\ rig' = [pc |-> "set", i |-> 0,
               found |-> IF scenario_file.exists THEN scenario_file.current_stage
                         ELSE "none"]
    /\ UNCHANGED <<npc_manager, npc_store, walk, probe>>
    /\ UNCHANGED <<store_vars, budget_vars, talk_vars>>
    /\ UNCHANGED io_vars

\* Loop body, first half: set_current_stage(master_user_id, stages[i]).
RigSetStage ==
    /\ rig.pc = "set"
    /\ scenario_file' = set_current_stage(scenario_file, RigStages[rig.i + 1])
    /\ rig' = [rig EXCEPT !.pc = "msg"]
    /\ UNCHANGED <<npc_manager, npc_store, session_type, walk, probe>>
    /\ UNCHANGED <<store_vars, budget_vars, talk_vars>>
    /\ UNCHANGED io_vars

\* Loop body, second half: handle_message on the request of step i and,
\* in the last step, one more extraction from the reply.
RigHandleMessage ==
    /\ rig.pc = "msg"
    /\ \E r \in (IF session_type = SESSION_SCENARIO
                 THEN MessageResults(scenario_file, npc_manager, npc_store)
                 ELSE {[file |-> scenario_file, session |-> session_type]}) :
         \E x3 \in (IF rig.i = MAX_SCENARIO_STEPS - 1
                    THEN ExtractionOutputs(r.file) ELSE {LlmFailure}) :
           /\ scenario_file' = extract_and_save_scenario_info(r.file, x3).file
           /\ session_type' = r.session
    /\ rig' = IF rig.i + 1 < MAX_SCENARIO_STEPS
              THEN [rig EXCEPT !.pc = "set", !.i = rig.i + 1]
              ELSE [rig EXCEPT !.pc = "final", !.i = 0]
    /\ UNCHANGED <<npc_manager, npc_store, walk, probe>>
    /\ UNCHANGED <<store_vars, budget_vars, talk_vars>>
    /\ UNCHANGED io_vars

\* After the loop: the final fill of missing fields and the NPC generation.
RigFinish ==
    /\ rig.pc = "final"
    /\ \E m \in FillOutputs(scenario_file) :
         scenario_file' = extract_missing_scenario_info(scenario_file, m).file
    /\ \E store_after \in {npc_store, NPC_COUNT} :
         npc_store' = ensure_scenario_npcs(scenario_file', npc_manager, npc_store,
                                           store_after)
    /\ rig' = [rig EXCEPT !.pc = "initial"]
    /\ UNCHANGED <<npc_manager, session_type, walk, probe>>
    /\ UNCHANGED <<store_vars, budget_vars, talk_vars>>
    /\ UNCHANGED io_vars

\* The request for the initial situation: handle_message once more.
RigInitialSituation ==
    /\ rig.pc = "initial"
    /\ \E r \in (IF session_type = SESSION_SCENARIO
                 THEN MessageResults(scenario_file, npc_manager, npc_store)
                 ELSE {[file |-> scenario_file, session |-> session_type]}) :
         /\ scenario_file' = r.file
         /\ session_type' = r.session
    /\ rig' = RigIdle
    /\ UNCHANGED <<npc_manager, npc_store, walk, probe>>
    /\ UNCHANGED <<store_vars, budget_vars, talk_vars>>
    /\ UNCHANGED io_vars

Next ==
    \/ SessionCommand
    \/ HandleMessage
    \/ GenerateNpcs
    \/ SetupMasterSession
    \/ RigSetStage
    \/ RigHandleMessage
    \/ RigFinish
    \/ RigInitialSituation

Spec == Init /\ [][Next]_vars

----------------------------------------------------------------------------
\* The pure functions on every record: SpecProbe starts from any record of
\* the bounded shapes below and applies is_stage_complete and get_next_stage.

StoredRecords(cat, n) == [i \in 1..n |-> WithId(RecordData(cat, {}), i)]

ProbeFile(overview, e, n, h, d) ==
    [init_scenario_creation EXCEPT
        !.overview = overview,
        !.episodes = StoredRecords("episodes", e),
        !.npcs = StoredRecords("npcs", n),
        !.hints = StoredRecords("hints", h),
        !.dungeons = StoredRecords("dungeons", d)]

\* No record; every overview with no content; a complete overview with one
\* category of any size while the other categories are empty or full.
ProbeFiles ==
    {NoScenario}
    \cup {ProbeFile(o, 0, 0, 0, 0) : o \in [OverviewChecked -> {"", "v"}]}
    \cup {ProbeFile(OverviewData({}),
                    IF cat = "episodes" THEN k ELSE rest,
                    IF cat = "npcs" THEN k ELSE rest,
                    IF cat = "hints" THEN k ELSE rest,
                    IF cat = "dungeons" THEN k ELSE rest) :
             cat \in Categories, k \in 0..MaxRecords, rest \in {0, MaxRecords}}

InitProbe ==
    /\ scenario_file \in ProbeFiles
    /\ npc_manager \in BOOLEAN
    /\ npc_store \in (IF npc_manager THEN 0..MaxNpcStore ELSE {0})
    /\ session_type = SESSION_OTHER
    /\ rig = RigIdle
    /\ walk = NoWalk
    /\ probe = NoProbe
    /\ StoreIdle
    /\ BudgetIdle
    /\ TalkIdle
    /\ IoIdle

\* is_stage_complete(user_id, stage) is called.
Evaluate ==
    /\ \E stage \in ScenarioStage :
         probe' = [stage |-> stage,
                   result |-> is_stage_complete(scenario_file, npc_manager,
                                                npc_store, stage)]
    /\ UNCHANGED <<scenario_file, npc_manager, npc_store, session_type, rig, walk>>
    /\ UNCHANGED <<store_vars, budget_vars, talk_vars>>
    /\ UNCHANGED io_vars

\* advance: the stage is replaced by get_next_stage of it.
Advance ==
    /\ walk.calls < MaxCalls
    /\ walk' = [stage |-> get_next_stage(walk.stage), calls |-> walk.calls + 1]
    /\ UNCHANGED <<scenario_file, npc_manager, npc_store, session_type, rig, probe>>
    /\ UNCHANGED <<store_vars, budget_vars, talk_vars>>
    /\ UNCHANGED io_vars

NextProbe == Evaluate \/ Advance

SpecProbe == InitProbe /\ [][NextProbe]_vars

----------------------------------------------------------------------------
\* Direct calls of add_* with a write that can fail: SpecAppend.

\* Records a user may have: none, a fresh one, one with some content.
AppendFiles ==
    {NoScenario, init_scenario_creation,
     ProbeFile(OverviewData({}), 2, 0, 1, 0)}

InitAppend ==
    /\ scenario_file \in AppendFiles
    /\ npc_manager \in BOOLEAN
    /\ npc_store = 0
    /\ session_type = SESSION_SCENARIO
    /\ rig = RigIdle
    /\ walk = NoWalk
    /\ probe = NoProbe
    /\ StoreIdle
    /\ BudgetIdle
    /\ TalkIdle
    /\ IoIdle

\* add_episode, add_npc, add_hint or add_dungeon is called for the user.
AppendContent ==
    /\ append_call.n < MaxAppends
    /\ \E cat \in Categories, fault \in WriteFaults :
         /\ scenario_file' = add_content(scenario_file, cat, RecordData(cat, {}), fault)
         /\ append_call' = [n |-> append_call.n + 1, cat |-> cat, fault |-> fault]
    /\ UNCHANGED <<npc_manager, npc_store, session_type, rig, walk, probe>>
    /\ UNCHANGED <<session_file, temp_file, save, reader, budget_vars, talk_vars>>
    /\ UNCHANGED io_vars

\* is_stage_complete is called for the user.
EvaluateStored ==
    /\ \E stage \in ScenarioStage :
         probe' = [stage |-> stage,
                   result |-> is_stage_complete(scenario_file, npc_manager,
                                                npc_store, stage)]
    /\ UNCHANGED <<scenario_file, npc_manager, npc_store, session_type, rig, walk>>
    /\ UNCHANGED <<store_vars, budget_vars, talk_vars>>
    /\ UNCHANGED io_vars

NextAppend == AppendContent \/ EvaluateStored

SpecAppend == InitAppend /\ [][NextAppend]_vars

----------------------------------------------------------------------------
\* save_session_data step by step, its caller in handle_message, and a
\* reader of the final path: SpecStore.

InitStore ==
    /\ scenario_file \in {NoScenario, ProbeFile(OverviewData({}), 1, 0, 0, 0)}
    /\ npc_manager = FALSE
    /\ npc_store = 0
    /\ session_type \in MacroSessions
    /\ rig = RigIdle
    /\ walk = NoWalk
    /\ probe = NoProbe
    /\ append_call = NoAppend
    /\ session_file \in {NoFile, OldFile}
    /\ temp_file = NoFile
    /\ save = SaveIdle
    /\ reader = NoRead
    /\ BudgetIdle
    /\ TalkIdle
    /\ IoIdle

Disk == [final |-> session_file, temp |-> temp_file]

SetDisk(disk) ==
    /\ session_file' = disk.final
    /\ temp_file' = disk.temp

StoreOnly ==
    UNCHANGED <<scenario_file, npc_manager, npc_store, session_type, rig, walk,
                probe, append_call, reader, budget_vars, talk_vars, io_vars>>

\* The call returns `result` from position save.pc.
Return(result) == save' = [save EXCEPT !.pc = "done", !.result = result]

\* `exc` is raised in the write block: the except clause removes the
\* temporary file and the call returns.
WriteFails(exc) ==
    /\ SetDisk(cleanup_temp(Disk))
    /\ save' = [save EXCEPT !.pc = "done", !.fault = exc,
                            !.result = on_exception("write", exc)]

\* save_session_data is called with any arguments.
SaveCall ==
    /\ save.pc = "idle"
    /\ \E user_ok \in BOOLEAN, category \in CategoryValues, data \in DataValues :
         save' = [SaveIdle EXCEPT !.pc = "validate", !.caller = "api",
                                  !.user_ok = user_ok, !.category = category,
                                  !.data = data, !.before = session_file]
    /\ UNCHANGED <<session_file, temp_file>>
    /\ StoreOnly
    /\ UNCHANGED io_vars

\* handle_message in a macro-session: when the session is judged complete it
\* calls save_session_data with the session's conversation.
SessionMessage ==
    /\ save.pc = "idle"
    /\ session_type \in MacroSessions
    /\ \E completion_check \in BOOLEAN :
         save' = IF completion_check
                 THEN [SaveIdle EXCEPT !.pc = "validate", !.caller = "handler",
                                       !.data = "record", !.before = session_file]
                 ELSE save
    /\ UNCHANGED <<session_file, temp_file>>
    /\ StoreOnly
    /\ UNCHANGED io_vars

\* if not user_id or not session_type or not data: return False
Validate ==
    /\ save.pc = "validate"
    /\ IF ~save.user_ok \/ save.category = "empty" \/ save.data = "empty"
       THEN Return(RETURN_FALSE)
       ELSE save' = [save EXCEPT !.pc = "makedirs"]
    /\ UNCHANGED <<session_file, temp_file>>
    /\ StoreOnly
    /\ UNCHANGED io_vars

\* os.makedirs of the two directories, then os.access.
MakeDirs ==
    /\ save.pc = "makedirs"
    /\ \/ save' = [save EXCEPT !.pc = "filename"]
       \/ \E exc \in {"PermissionError", "OSError", "ValueError"} :
            save' = [save EXCEPT !.pc = "done", !.fault = exc,
                                 !.result = on_exception("makedirs", exc)]
       \/ Return(RETURN_FALSE)
    /\ UNCHANGED <<session_file, temp_file>>
    /\ StoreOnly
    /\ UNCHANGED io_vars

\* filename_map.get(session_type, f"{session_type.replace('_', '-')}.json"):
\* the default is evaluated before the lookup.
FileName ==
    /\ save.pc = "filename"
    /\ IF save.category = "nonstring"
       THEN save' = [save EXCEPT !.pc = "done", !.fault = "AttributeError",
                        !.result = on_exception("filename", "AttributeError")]
       ELSE save' = [save EXCEPT !.pc = "serialize"]
    /\ UNCHANGED <<session_file, temp_file>>
    /\ StoreOnly
    /\ UNCHANGED io_vars

\* json.dumps(data) as a check of the data.
Serialize ==
    /\ save.pc = "serialize"
    /\ IF save.data = "object_record"
       THEN save' = [save EXCEPT !.pc = "done", !.fault = "TypeError",
                        !.result = on_exception("serialize", "TypeError")]
       ELSE save' = [save EXCEPT !.pc = "open"]
    /\ UNCHANGED <<session_file, temp_file>>
    /\ StoreOnly
    /\ UNCHANGED io_vars

\* open(temp_filepath, 'w')
OpenTemp ==
    /\ save.pc = "open"
    /\ \/ /\ SetDisk(open_temp(Disk, save.data))
          /\ save' = [save EXCEPT !.pc = "dump"]
       \/ \E exc \in {"PermissionError", "OSError"} : WriteFails(exc)
    /\ StoreOnly

\* json.dump, flush, fsync and the close of the temporary file.
DumpTemp ==
    /\ save.pc = "dump"
    /\ \/ /\ SetDisk(dump_temp(Disk))
          /\ save' = [save EXCEPT !.pc = "remove"]
       \/ WriteFails("OSError")
    /\ StoreOnly

\* if os.path.exists(filepath): os.remove(filepath)
RemoveOld ==
    /\ save.pc = "remove"
    /\ \/ /\ SetDisk(IF session_file # NoFile THEN remove_old(Disk) ELSE Disk)
          /\ save' = [save EXCEPT !.pc = "rename"]
       \/ /\ session_file # NoFile
          /\ WriteFails("PermissionError")
    /\ StoreOnly

\* os.rename(temp_filepath, filepath)
Rename ==
    /\ save.pc = "rename"
    /\ \/ /\ SetDisk(rename_temp(Disk))
          /\ save' = [save EXCEPT !.pc = "verify", !.renamed = TRUE]
       \/ \E exc \in {"PermissionError", "OSError"} : WriteFails(exc)
    /\ StoreOnly

\* The final file is looked for, opened and parsed.
Verify ==
    /\ save.pc = "verify"
    /\ Return(IF verify_file(Disk) THEN RETURN_TRUE ELSE RETURN_FALSE)
    /\ UNCHANGED <<session_file, temp_file>>
    /\ StoreOnly
    /\ UNCHANGED io_vars

\* The process stops inside save_session_data: no except clause runs and
\* nothing is returned.
Interrupt ==
    /\ save.pc \in {"makedirs", "filename", "serialize", "open", "dump",
                    "remove", "rename", "verify"}
    /\ save' = [save EXCEPT !.pc = "done", !.result = "interrupted"]
    /\ UNCHANGED <<session_file, temp_file>>
    /\ StoreOnly
    /\ UNCHANGED io_vars

\* The call is over; handle_message goes on with `if save_result:`.
SaveReturn ==
    /\ save.pc = "done"
    /\ save' = SaveIdle
    /\ IF save.caller = "handler" /\ save.result \in {RETURN_TRUE, RETURN_FALSE}
       THEN /\ session_type' = session_after_save(session_type,
                                                  save.result = RETURN_TRUE)
            /\ scenario_file' = record_after_save(scenario_file, session_type,
                                                  save.result = RETURN_TRUE)
       ELSE UNCHANGED <<scenario_file, session_type>>
    /\ UNCHANGED <<npc_manager, npc_store, rig, walk, probe, append_call,
                   session_file, temp_file, reader, budget_vars, talk_vars>>
    /\ UNCHANGED io_vars

\* load_session_files_context or the check of test_save_session_data reads
\* the final path.
LoadSessionFile ==
    /\ reader' = [file |-> session_file, at |-> save.pc]
    /\ UNCHANGED <<scenario_file, npc_manager, npc_store, session_type, rig,
                   walk, probe, append_call, session_file, temp_file, save,
                   budget_vars, talk_vars>>
    /\ UNCHANGED io_vars

NextStore ==
    \/ SaveCall
    \/ SessionMessage
    \/ Validate
    \/ MakeDirs
    \/ FileName
    \/ Serialize
    \/ OpenTemp
    \/ DumpTemp
    \/ RemoveOld
    \/ Rename
    \/ Verify
    \/ Interrupt
    \/ SaveReturn
    \/ LoadSessionFile

SpecStore == InitStore /\ [][NextStore]_vars

----------------------------------------------------------------------------
\* optimize_context_parts over lists of blocks: SpecBudget.

BlockLens == {6, MaxLen}

\* The keyword "플레이어 캐릭터 정보" alone has 11 characters; a block whose
\* first keyword is "상황 요약" keeps its tail.
Blocks ==
    {b \in [ratio : PriorityRatios \cup {0}, tail : BOOLEAN,
            len : BlockLens, cut : {"none"}] :
        /\ b.ratio = 30 => b.len >= 11
        /\ b.ratio = SUMMARY_RATIO => b.tail}

RECURSIVE BlockLists(_)
BlockLists(n) ==
    IF n = 0 THEN {<<>>}
    ELSE LET shorter == BlockLists(n - 1)
         IN shorter \cup {Append(l, b) : l \in {x \in shorter : Len(x) = n - 1},
                                         b \in Blocks}

Budgets == {4, MaxBudget}

InitBudget ==
    /\ scenario_file = NoScenario
    /\ npc_manager = FALSE
    /\ npc_store = 0
    /\ session_type = SESSION_OTHER
    /\ rig = RigIdle
    /\ walk = NoWalk
    /\ probe = NoProbe
    /\ StoreIdle
    /\ context_parts \in BlockLists(MaxBlocks)
    /\ max_total_length \in Budgets
    /\ optimized_parts = NotOptimized
    /\ TalkIdle
    /\ IoIdle

\* optimize_context_parts(context_parts, max_total_length) is called.
Optimize ==
    /\ optimized_parts = NotOptimized
    /\ optimized_parts' = optimize_context_parts(context_parts, max_total_length)
    /\ UNCHANGED <<scenario_file, npc_manager, npc_store, session_type, rig,
                   walk, probe, store_vars, context_parts, max_total_length,
                   talk_vars>>
    /\ UNCHANGED io_vars

NextBudget == Optimize

SpecBudget == InitBudget /\ [][NextBudget]_vars

----------------------------------------------------------------------------
\* extract_session_completion_info and the macro-session branch of
\* handle_message as a whole: SpecCompletion.

PlainTurn(i) == [id |-> i, motif |-> "none", round |-> 0]

PlainHistory(n) == [i \in 1..n |-> PlainTurn(i)]

\* A text with no completion keyword, one with a keyword of the adventure
\* session alone ("던전으로"), one with a keyword of every session ("다음").
Texts == {[keywords_of |-> {}], [keywords_of |-> {SESSION_ADVENTURE}],
          [keywords_of |-> CompletionSessions]}

InitCompletion ==
    /\ scenario_file \in {NoScenario, ProbeFile(OverviewData({}), 1, 0, 0, 0)}
    /\ npc_manager = FALSE
    /\ npc_store = 0
    /\ session_type \in MacroSessions
    /\ rig = RigIdle
    /\ walk = NoWalk
    /\ probe = NoProbe
    /\ StoreIdle
    /\ BudgetIdle
    /\ user_conversations \in {PlainHistory(n) : n \in 0..MaxHistory}
    /\ completion = NoCompletion
    /\ repetition = NoRepetition
    /\ IoIdle

\* extract_session_completion_info is called with any arguments.
CheckCompletion ==
    /\ \E text \in Texts, session \in Sessions, outcome \in BackendOutcomes :
         LET check == extract_session_completion_info(text, session,
                                                      user_conversations, outcome)
         IN completion' = [called |-> TRUE, caller |-> "api", session |-> session,
                           text |-> text, history |-> user_conversations,
                           outcome |-> outcome, result |-> check.result,
                           llm_calls |-> check.llm_calls, prompt |-> check.prompt,
                           reply |-> "none"]
    /\ UNCHANGED <<scenario_file, npc_manager, npc_store, session_type, rig, walk,
                   probe, store_vars, budget_vars, user_conversations, repetition>>
    /\ UNCHANGED io_vars

\* handle_message in a macro-session: the user's turn is recorded, the
\* completion check is made, and on completion the session data is saved
\* (save_result is what save_session_data returns) and the session moves on
\* with the transition notice; otherwise the ordinary answer is generated and
\* recorded.
MacroMessage ==
    /\ session_type \in MacroSessions
    /\ Len(user_conversations) < MaxHistory
    /\ \E text \in Texts, outcome \in BackendOutcomes, save_result \in BOOLEAN :
         LET said == Append(user_conversations,
                            PlainTurn(Len(user_conversations) + 1))
             check == extract_session_completion_info(text, session_type, said,
                                                      outcome)
             moved == check.result = RETURN_TRUE /\ save_result
             reply == IF check.result = RAISED THEN "none"
                      ELSE IF moved THEN "transition" ELSE "answer"
         IN /\ completion' = [called |-> TRUE, caller |-> "handler",
                              session |-> session_type, text |-> text,
                              history |-> said, outcome |-> outcome,
                              result |-> check.result,
                              llm_calls |-> check.llm_calls,
                              prompt |-> check.prompt, reply |-> reply]
            /\ session_type' = session_after_save(session_type, moved)
            /\ scenario_file' = record_after_save(scenario_file, session_type, moved)
            /\ user_conversations' =
                 IF reply = "answer"
                 THEN Append(said, PlainTurn(Len(said) + 1))
                 ELSE said
    /\ UNCHANGED <<npc_manager, npc_store, rig, walk, probe, store_vars,
                   budget_vars, repetition>>
    /\ UNCHANGED io_vars

NextCompletion == CheckCompletion \/ MacroMessage

SpecCompletion == InitCompletion /\ [][NextCompletion]_vars

----------------------------------------------------------------------------
\* check_repetitive_situation_in_context on conversations as handle_message
\* builds them, one appended turn at a time: SpecRepetition.

\* What a turn may hold: nothing of interest, one repetition keyword
\* ("또다시" holds "다시" as well), or a round number ("라운드 4", "라운드 5").
TurnKinds == {"plain", "dungeon", "again", "once_again", "round4", "round5"}

Turn(i, kind) ==
    [id |-> i,
     motif |-> IF kind \in RepetitiveKeywords THEN kind ELSE "none",
     round |-> IF kind = "round4" THEN 4 ELSE IF kind = "round5" THEN 5 ELSE 0]

Marked(conversation_history) ==
    Cardinality({i \in DOMAIN conversation_history :
                   conversation_history[i] # PlainTurn(i)})

ScenarioContexts == {[text |-> TRUE, episodes |-> TRUE],
                     [text |-> TRUE, episodes |-> FALSE]}

InitRepetition ==
    /\ scenario_file = NoScenario
    /\ npc_manager = FALSE
    /\ npc_store = 0
    /\ session_type = SESSION_PLAY
    /\ rig = RigIdle
    /\ walk = NoWalk
    /\ probe = NoProbe
    /\ StoreIdle
    /\ BudgetIdle
    /\ TalkIdle
    /\ IoIdle

\* user_conversations[user_id].append(...): the user's turn or the master's.
AppendTurn ==
    /\ ~repetition.called
    /\ Len(user_conversations) < MaxTurns
    /\ \E kind \in TurnKinds :
         LET turn == Turn(Len(user_conversations) + 1, kind)
         IN /\ Marked(Append(user_conversations, turn)) <= MaxMarked
            /\ user_conversations' = Append(user_conversations, turn)
    /\ UNCHANGED <<scenario_file, npc_manager, npc_store, session_type, rig, walk,
                   probe, store_vars, budget_vars, completion, repetition>>
    /\ UNCHANGED io_vars

\* check_repetitive_situation_in_context is called on the conversation.
Detect ==
    /\ ~repetition.called
    /\ \E scenario_context \in ScenarioContexts :
         repetition' = [called |-> TRUE, caller |-> "api",
                        scenario_context |-> scenario_context,
                        history |-> user_conversations,
                        result |-> check_repetitive_situation_in_context(
                                       scenario_context, user_conversations)]
    /\ UNCHANGED <<scenario_file, npc_manager, npc_store, session_type, rig, walk,
                   probe, store_vars, budget_vars, user_conversations, completion>>
    /\ UNCHANGED io_vars

NextRepetition == AppendTurn \/ Detect

SpecRepetition == InitRepetition /\ [][NextRepetition]_vars

----------------------------------------------------------------------------
\* The play session: handle_message in "모험_진행", the forced transition
\* and the episode progress they work on: SpecPlay.

\* A record with e episodes of distinct titles and none started.
PlayFile(e) ==
    [ProbeFile(OverviewData({}), e, 0, 0, 0) EXCEPT
        !.episodes = [i \in 1..e |-> [@[i] EXCEPT !.title = ToString(i)]]]

\* A turn of the play session holds "던전" or no keyword.
PlayKinds == {"plain", "dungeon"}

NoDirective == [kind |-> "none"]

InitPlay ==
    /\ scenario_file \in {NoScenario, PlayFile(0), PlayFile(MaxRecords)}
    /\ npc_manager = FALSE
    /\ npc_store = 0
    /\ session_type = SESSION_PLAY
    /\ rig = RigIdle
    /\ walk = NoWalk
    /\ probe = NoProbe
    /\ StoreIdle
    /\ BudgetIdle
    /\ TalkIdle
    /\ IoIdle

\* set_current_stage(user_id, stage); advancing is the call with
\* get_next_stage(current_stage).
SetCurrentStage ==
    /\ \E stage \in ScenarioStage :
         scenario_file' = set_current_stage(scenario_file, stage)
    /\ repetition' = NoRepetition
    /\ UNCHANGED <<npc_manager, npc_store, session_type, rig, walk, probe,
                   store_vars, budget_vars, user_conversations, completion>>
    /\ UNCHANGED io_vars

\* update_episode_progress(user_id, episode_id, status)
UpdateEpisodeProgress ==
    /\ \E episode_id \in 1..MaxRecords,
          status \in {EPISODE_IN_PROGRESS, EPISODE_COMPLETED} :
         scenario_file' = update_episode_progress(scenario_file, episode_id, status)
    /\ repetition' = NoRepetition
    /\ UNCHANGED <<npc_manager, npc_store, session_type, rig, walk, probe,
                   store_vars, budget_vars, user_conversations, completion>>
    /\ UNCHANGED io_vars

\* advance_to_next_episode(user_id)
AdvanceEpisode ==
    /\ scenario_file' = advance_to_next_episode(scenario_file)
    /\ repetition' = NoRepetition
    /\ UNCHANGED <<npc_manager, npc_store, session_type, rig, walk, probe,
                   store_vars, budget_vars, user_conversations, completion>>
    /\ UNCHANGED io_vars

\* force_episode_progression_context(user_id, scenario_context)
ForceTransition ==
    /\ \E scenario_context \in ScenarioContexts, choice \in 1..PROGRESSION_PROMPTS :
         LET forced == force_episode_progression_context(scenario_file,
                                                         scenario_context, choice)
         IN /\ scenario_file' = forced.file
            /\ repetition' = [called |-> TRUE, caller |-> "api",
                              scenario_context |-> scenario_context,
                              result |-> TRUE, directive |-> forced.directive]
    /\ UNCHANGED <<npc_manager, npc_store, session_type, rig, walk, probe,
                   store_vars, budget_vars, user_conversations, completion>>
    /\ UNCHANGED io_vars

\* handle_message in the play session: the user's turn is recorded; the
\* scenario context is built (which enters the session in the record); when
\* the context is not empty the repetition check is made and, when it
\* answers true, the transition is forced; the answer is generated and
\* recorded.
PlayMessage ==
    /\ session_type = SESSION_PLAY
    /\ Len(user_conversations) + 2 <= MaxHistory
    /\ \E user_kind \in PlayKinds, master_kind \in PlayKinds,
          choice \in 1..PROGRESSION_PROMPTS :
         LET said == Append(user_conversations,
                            Turn(Len(user_conversations) + 1, user_kind))
             scenario_context == get_scenario_context_for_mastering(scenario_file)
             entered == update_session_progress(scenario_file, session_type)
             repetitive_detected ==
                 /\ scenario_context.text
                 /\ check_repetitive_situation_in_context(scenario_context, said)
             forced == force_episode_progression_context(entered, scenario_context,
                                                         choice)
         IN /\ scenario_file' = IF repetitive_detected THEN forced.file ELSE entered
            /\ repetition' = [called |-> TRUE, caller |-> "handler",
                              scenario_context |-> scenario_context,
                              result |-> repetitive_detected,
                              directive |-> IF repetitive_detected
                                            THEN forced.directive ELSE NoDirective]
            /\ user_conversations' = Append(said, Turn(Len(said) + 1, master_kind))
    /\ UNCHANGED <<npc_manager, npc_store, session_type, rig, walk, probe,
                   store_vars, budget_vars, completion>>
    /\ UNCHANGED io_vars

NextPlay ==
    \/ UpdateEpisodeProgress
    \/ ForceTransition
    \/ PlayMessage

SpecPlay == InitPlay /\ [][NextPlay]_vars

----------------------------------------------------------------------------
\* The stage pointer and the episode progress of one record, each moved by
\* its own operations: SpecEpisodes.

InitEpisodes ==
    /\ scenario_file \in {NoScenario} \cup {PlayFile(e) : e \in 0..MaxRecords}
    /\ npc_manager = FALSE
    /\ npc_store = 0
    /\ session_type = SESSION_PLAY
    /\ rig = RigIdle
    /\ walk = NoWalk
    /\ probe = NoProbe
    /\ StoreIdle
    /\ BudgetIdle
    /\ TalkIdle
    /\ IoIdle

NextEpisodes ==
    \/ SetCurrentStage
    \/ UpdateEpisodeProgress
    \/ AdvanceEpisode

SpecEpisodes == InitEpisodes /\ [][NextEpisodes]_vars

----------------------------------------------------------------------------
\* The entries into the play session and the advances: SpecEntries.

\* handle_message closes a session whose successor is the play session:
\* after a successful save it activates episode 1 (lines 1914-1927).
EnterPlaySession ==
    /\ \E session \in {SESSION_PREPARATION, SESSION_PLAY}, save_result \in BOOLEAN :
         scenario_file' = record_after_save(scenario_file, session, save_result)
    /\ session_type' = SESSION_PLAY
    /\ repetition' = NoRepetition
    /\ UNCHANGED <<npc_manager, npc_store, rig, walk, probe,
                   store_vars, budget_vars, user_conversations, completion>>
    /\ UNCHANGED io_vars

\* setup_master_session of multi_bot_test: a new record with episode 1
\* activated.
MasterEntry ==
    /\ scenario_file' = setup_master_session
    /\ session_type' = SESSION_SCENARIO
    /\ repetition' = NoRepetition
    /\ UNCHANGED <<npc_manager, npc_store, rig, walk, probe,
                   store_vars, budget_vars, user_conversations, completion>>
    /\ UNCHANGED io_vars

NextEntries ==
    \/ EnterPlaySession
    \/ MasterEntry
    \/ SetCurrentStage
    \/ AdvanceEpisode

SpecEntries == InitEpisodes /\ [][NextEntries]_vars

----------------------------------------------------------------------------
\* update_missing_fields on records with and without empty fields and on
\* data that holds more than was asked for: SpecFill.

\* n stored records of a category; those at the positions empty_at lack
\* their detail field.
PartRecords(cat, n, empty_at) ==
    [i \in 1..n |->
        WithId(RecordData(cat, IF i \in empty_at THEN {DetailField(cat)} ELSE {}), i)]

\* Records with a complete or a partial overview, any number of episodes of
\* which any may lack a field, and one hint with or without its field.
FillFiles ==
    {NoScenario} \cup
    {[init_scenario_creation EXCEPT
         !.current_stage = stage,
         !.overview = OverviewData(o),
         !.episodes = PartRecords("episodes", n, e),
         !.hints = PartRecords("hints", 1, h)] :
       stage \in {OVERVIEW, HINTS}, o \in {{}, {"title", "rewards"}},
       n \in 0..MaxRecords, e \in SUBSET (1..MaxRecords), h \in SUBSET {1}}

\* A record of the new data: a value for every field, or for none, and an
\* id of its own.
NewRecord(cat, value) ==
    [k \in CategoryFields(cat) \cup {"id"} |-> IF k = "id" THEN 0 ELSE value]

NewRecords(cat, n, value) == [i \in 1..n |-> NewRecord(cat, value)]

\* The data parsed from the reply to the fill prompt: values for every
\* field of one record more or one record less than are stored, values for
\* the overview alone, for the categories alone, or empty values.
FillData(file) ==
    LET Stored(cat) == IF file.exists THEN Len(file[cat]) ELSE 0
        Less(cat) == IF Stored(cat) = 0 THEN 0 ELSE Stored(cat) - 1
        overview(value) == [k \in OverviewChecked |-> value]
    IN {[overview |-> overview(value),
         episodes |-> NewRecords("episodes", Stored("episodes") + 1, value),
         npcs |-> NewRecords("npcs", Stored("npcs") + 1, value),
         hints |-> NewRecords("hints", Stored("hints") + 1, value),
         dungeons |-> NewRecords("dungeons", Stored("dungeons") + 1, value)] :
          value \in {"", "w"}}
       \cup {[overview |-> overview("w"),
              episodes |-> NewRecords("episodes", Less("episodes"), "w"),
              npcs |-> NewRecords("npcs", Less("npcs"), "w"),
              hints |-> NewRecords("hints", Less("hints"), "w"),
              dungeons |-> NewRecords("dungeons", Less("dungeons"), "w")]}
       \cup {[overview |-> overview("w")]}
       \cup {[episodes |-> NewRecords("episodes", Stored("episodes"), "w"),
              hints |-> NewRecords("hints", Stored("hints"), "w")]}

\* The report of find_empty_fields, whole or with only its overview part.
EmptyReports(file) ==
    LET report == find_empty_fields(file)
    IN {report,
        [k \in DOMAIN report |->
            IF k = "overview" THEN report[k]
            ELSE [i \in DOMAIN report[k] |-> {}]]}

InitFill ==
    /\ scenario_file \in FillFiles
    /\ npc_manager = FALSE
    /\ npc_store = 0
    /\ session_type = SESSION_SCENARIO
    /\ rig = RigIdle
    /\ walk = NoWalk
    /\ probe = NoProbe
    /\ StoreIdle
    /\ BudgetIdle
    /\ TalkIdle
    /\ IoIdle

\* update_missing_fields(user_id, extracted_data, empty_fields)
UpdateMissingFields ==
    /\ \E extracted_data \in FillData(scenario_file),
          empty_fields \in EmptyReports(scenario_file) :
         LET r == update_missing_fields(scenario_file, extracted_data, empty_fields)
         IN /\ scenario_file' = r.file
            /\ extraction' = [called |-> TRUE, caller |-> "fill",
                              before |-> scenario_file,
                              empty_fields |-> empty_fields,
                              whole |-> "episodes" \in DOMAIN extracted_data
                                        /\ "overview" \in DOMAIN extracted_data,
                              result |-> r.updated]
    /\ UNCHANGED <<npc_manager, npc_store, session_type, rig, walk, probe,
                   store_vars, budget_vars, talk_vars, transport,
                   generation, conversation>>

\* extract_missing_scenario_info(user_id, text, history): the fill as the
\* pipeline makes it, on the report of find_empty_fields.
ExtractMissing ==
    /\ \E extracted_data \in FillData(scenario_file), ok \in BOOLEAN :
         LET r == extract_missing_scenario_info(
                      scenario_file,
                      IF ok THEN [ok |-> TRUE, data |-> extracted_data]
                      ELSE LlmFailure)
         IN /\ scenario_file' = r.file
            /\ extraction' = [called |-> TRUE, caller |-> "fill",
                              before |-> scenario_file,
                              empty_fields |-> find_empty_fields(scenario_file),
                              whole |-> "episodes" \in DOMAIN extracted_data
                                        /\ "overview" \in DOMAIN extracted_data,
                              result |-> r.ok]
    /\ UNCHANGED <<npc_manager, npc_store, session_type, rig, walk, probe,
                   store_vars, budget_vars, talk_vars, transport,
                   generation, conversation>>

NextFill == UpdateMissingFields \/ ExtractMissing

SpecFill == InitFill /\ [][NextFill]_vars

----------------------------------------------------------------------------
\* extract_and_save_scenario_info on replies with and without a payload, and
\* handle_message in the scenario creation session with its inputs kept:
\* SpecExtraction.

\* Every reply of the extraction prompt, the list included.
AllExtractionOutputs(file) == ExtractionOutputs(file) \cup {ListPayload}

\* extract_and_save_scenario_info(user_id, text, conversation_history)
ExtractCall ==
    /\ \E llm \in AllExtractionOutputs(scenario_file) :
         LET r == extract_and_save_scenario_info(scenario_file, llm)
         IN /\ scenario_file' = r.file
            /\ extraction' = [called |-> TRUE, caller |-> "api",
                              payload |-> llm.ok, result |-> r.ok,
                              attempts |-> 1]
    /\ UNCHANGED <<npc_manager, npc_store, session_type, rig, walk, probe,
                   store_vars, budget_vars, talk_vars, transport,
                   generation, conversation>>

\* handle_message in the scenario creation session; the log keeps whether
\* the text named a fill request, whether the reply to the extraction from
\* the user's text had a payload, the record before and after that
\* extraction, and the number of extractions made.
ScenarioMessage ==
    /\ session_type = SESSION_SCENARIO
    /\ \E p \in (IF scenario_file.exists THEN {FALSE} ELSE BOOLEAN),
          k \in BOOLEAN :
         LET f0 == record_preferences(scenario_file, p)
         IN \E x1 \in AllExtractionOutputs(f0) :
              LET f1 == extract_and_save_scenario_info(f0, x1).file
              IN \E m \in FillOutputs(f1), x2 \in AllExtractionOutputs(f1) :
                   LET input == [preference_keyword |-> p, fill_keyword |-> k,
                                 llm_text |-> x1, llm_fill |-> m, llm_reply |-> x2]
                       r == handle_message(scenario_file, npc_manager, npc_store,
                                           input)
                   IN /\ scenario_file' = r.file
                      /\ session_type' = r.session
                      /\ extraction' =
                           [called |-> TRUE, caller |-> "handler",
                            fill_keyword |-> k,
                            payload |-> x1.ok,
                            before |-> f0,
                            after |-> IF k THEN f0 ELSE f1,
                            attempts |-> extraction_attempts(
                                scenario_file, npc_manager, npc_store, input)]
    /\ UNCHANGED <<npc_manager, npc_store, rig, walk, probe, store_vars,
                   budget_vars, talk_vars, transport,
                   generation, conversation>>

NextExtraction == SessionCommand \/ ExtractCall \/ ScenarioMessage

SpecExtraction == Init /\ [][NextExtraction]_vars

\* The same with the generation of NPCs in the NPC subsystem, which makes
\* the NPC stage complete before the record reaches it: SpecAdvance.
NextAdvance == SessionCommand \/ GenerateNpcs \/ ScenarioMessage

SpecAdvance == Init /\ [][NextAdvance]_vars

----------------------------------------------------------------------------
\* split_long_message on short texts with small limits and on texts around
\* the transport's limit, and send_long_message: SpecTransport.

RECURSIVE TextsOf(_, _)
TextsOf(lengths, n) ==
    IF n = 1 THEN {<<l>> : l \in lengths}
    ELSE TextsOf(lengths, n - 1)
         \cup {Append(t, l) : t \in TextsOf(lengths, n - 1), l \in lengths}

ShortTexts == TextsOf(0..MaxLineLen, MaxLines)

\* Lines around the limits of the transport.
LongTexts ==
    TextsOf({0, 1, SAFE_MESSAGE_LENGTH - 1, SAFE_MESSAGE_LENGTH,
             TELEGRAM_MAX_MESSAGE_LENGTH + 1}, MaxLines)

InitTransport == Init

\* split_long_message(text, max_length)
SplitLongMessage ==
    /\ ~transport.called
    /\ \E max_length \in 1..MaxLimit \cup {SAFE_MESSAGE_LENGTH} :
         \E lines \in (IF max_length = SAFE_MESSAGE_LENGTH THEN LongTexts
                       ELSE ShortTexts) :
           transport' = [called |-> TRUE, caller |-> "split", text |-> lines,
                         max_length |-> max_length,
                         chunks |-> split_long_message(lines, max_length),
                         sent |-> <<>>]
    /\ UNCHANGED <<scenario_file, npc_manager, npc_store, session_type, rig, walk,
                   probe, store_vars, budget_vars, talk_vars, extraction,
                   generation, conversation>>

\* send_long_message(message, text)
SendLongMessage ==
    /\ ~transport.called
    /\ \E lines \in LongTexts :
         transport' = [called |-> TRUE, caller |-> "send", text |-> lines,
                       max_length |-> SAFE_MESSAGE_LENGTH,
                       chunks |-> split_long_message(lines, SAFE_MESSAGE_LENGTH),
                       sent |-> send_long_message(lines)]
    /\ UNCHANGED <<scenario_file, npc_manager, npc_store, session_type, rig, walk,
                   probe, store_vars, budget_vars, talk_vars, extraction,
                   generation, conversation>>

NextTransport == SplitLongMessage \/ SendLongMessage

SpecTransport == InitTransport /\ [][NextTransport]_vars

----------------------------------------------------------------------------
\* The generation calls of multi_bot_test (specification SpecMaster). What
\* these calls do to the scenario record is the subject of the actions
\* SetupMasterSession to RigInitialSituation above; here the state is the
\* list of the calls made and what bounds each of them.

\* handle_message awaited under asyncio.wait_for(task, timeout=LLM_TIMEOUT):
\* it replied, it left no reply, asyncio.TimeoutError, another exception.
WaitForOutcomes == {"reply", "no_reply", "timeout", "error"}

\* extract_and_save_scenario_info and extract_missing_scenario_info called
\* directly: both catch what the backend raises and return True or False.
DirectOutcomes == {"true", "false"}

GenerationCall(function, timeout, outcome) ==
    [function |-> function, timeout |-> timeout, outcome |-> outcome]

\* The value returned after handle_message: its last reply, or else the
\* value of generate_simple_master_response, which draws a canned text with
\* random.choice and calls no backend.
master_response(outcome) == IF outcome = "reply" THEN "reply" ELSE "local"

\* generate_master_response_with_scenario_support(player_responses,
\* master_user_id, False): one handle_message call under wait_for.
MasterTurn ==
    /\ generation.pc \in {"idle", "returned"}
    /\ \E outcome \in WaitForOutcomes :
         generation' = [NoGeneration EXCEPT
                          !.pc = "returned",
                          !.calls = <<GenerationCall("handle_message", TRUE, outcome)>>,
                          !.response = master_response(outcome)]
    /\ UNCHANGED <<scenario_file, npc_manager, npc_store, session_type, rig, walk,
                   probe, store_vars, budget_vars, talk_vars, extraction,
                   transport, conversation>>

\* The same with is_initial=True, up to the loop over scenario_requests.
ScenarioStart ==
    /\ generation.pc \in {"idle", "returned"}
    /\ generation' = [NoGeneration EXCEPT !.pc = "step", !.is_initial = TRUE]
    /\ UNCHANGED <<scenario_file, npc_manager, npc_store, session_type, rig, walk,
                   probe, store_vars, budget_vars, talk_vars, extraction,
                   transport, conversation>>

\* One pass of the loop: handle_message under wait_for; after a reply of
\* the last request, extract_and_save_scenario_info(master_user_id,
\* response, []) is called directly. A timeout cancels the task and goes
\* on to the next request.
ScenarioStep ==
    /\ generation.pc = "step"
    /\ \E outcome \in WaitForOutcomes, direct \in DirectOutcomes :
         LET handled == Append(generation.calls,
                               GenerationCall("handle_message", TRUE, outcome))
             last == generation.i = MAX_SCENARIO_STEPS - 1
         IN generation' =
              [generation EXCEPT
                 !.pc = IF generation.i + 1 < MAX_SCENARIO_STEPS
                        THEN "step" ELSE "fill",
                 !.i = generation.i + 1,
                 !.scenario_responses = IF outcome = "reply" THEN @ + 1 ELSE @,
                 !.calls = IF outcome = "reply" /\ last
                           THEN Append(handled,
                                       GenerationCall("extract_and_save_scenario_info",
                                                      FALSE, direct))
                           ELSE handled]
    /\ UNCHANGED <<scenario_file, npc_manager, npc_store, session_type, rig, walk,
                   probe, store_vars, budget_vars, talk_vars, extraction,
                   transport, conversation>>

\* After the loop: extract_missing_scenario_info called directly.
FinalFill ==
    /\ generation.pc = "fill"
    /\ \E direct \in DirectOutcomes :
         generation' =
           [generation EXCEPT
              !.pc = "initial",
              !.calls = Append(@, GenerationCall("extract_missing_scenario_info",
                                                  FALSE, direct))]
    /\ UNCHANGED <<scenario_file, npc_manager, npc_store, session_type, rig, walk,
                   probe, store_vars, budget_vars, talk_vars, extraction,
                   transport, conversation>>

\* The initial situation: handle_message under wait_for when some request
\* was answered, and the local response otherwise or without a reply.
InitialSituation ==
    /\ generation.pc = "initial"
    /\ \E outcome \in WaitForOutcomes :
         generation' =
           IF generation.scenario_responses > 0
           THEN [generation EXCEPT
                   !.pc = "returned",
                   !.calls = Append(@, GenerationCall("handle_message", TRUE, outcome)),
                   !.response = master_response(outcome)]
           ELSE [generation EXCEPT !.pc = "returned", !.response = "local"]
    /\ UNCHANGED <<scenario_file, npc_manager, npc_store, session_type, rig, walk,
                   probe, store_vars, budget_vars, talk_vars, extraction,
                   transport, conversation>>

NextMaster == MasterTurn \/ ScenarioStart \/ ScenarioStep \/ FinalFill \/ InitialSituation

SpecMaster == Init /\ [][NextMaster]_vars

----------------------------------------------------------------------------
\* The conversation loop of multi_bot_test (specification SpecConversation).

\* MAX_ROUNDS
MAX_ROUNDS == 100

\* MEMORY_CHECK_INTERVAL
MEMORY_CHECK_INTERVAL == 5

\* if error_count >= 5
ERROR_LIMIT == 5

\* What a pass of the loop meets: no player response; responses and a
\* master response without or with a closing keyword; an exception raised
\* before round_number is counted up; KeyboardInterrupt.
RoundOutcomes == {"no_responses", "responses", "end_keyword", "error", "interrupt"}

\* One pass of `while True` in continuous_conversation. resources_ok is the
\* value of check_system_resources(), sent is FALSE when the send_message
\* that announces the last round raises.
conversation_round(c, resources_ok, outcome, sent) ==
    IF c.round_number % MEMORY_CHECK_INTERVAL = 0 /\ ~resources_ok
    THEN [c EXCEPT !.running = FALSE, !.ended = "resources"]
    ELSE IF outcome = "no_responses"
    THEN [c EXCEPT !.round_number = @ + 1]
    ELSE IF outcome = "end_keyword"
    THEN [c EXCEPT !.running = FALSE, !.ended = "keyword"]
    ELSE IF outcome = "interrupt"
    THEN [c EXCEPT !.running = FALSE, !.ended = "interrupt"]
    ELSE IF outcome = "responses" /\ (c.round_number + 1 <= MAX_ROUNDS \/ sent)
    THEN IF c.round_number + 1 > MAX_ROUNDS
         THEN [c EXCEPT !.round_number = @ + 1, !.running = FALSE,
                        !.ended = "max_rounds"]
         ELSE [c EXCEPT !.round_number = @ + 1]
    ELSE LET counted == IF outcome = "responses" THEN c.round_number + 1
                        ELSE c.round_number
             error_count == c.error_count + 1
         IN IF error_count >= ERROR_LIMIT
            THEN [c EXCEPT !.round_number = counted, !.error_count = error_count,
                           !.running = FALSE, !.ended = "errors"]
            ELSE [c EXCEPT !.round_number = counted, !.error_count = error_count]

\* continuous_conversation() is called, once in a run of the program:
\* round_number = 1, and the attribute error_count is not set yet.
ContinuousConversation ==
    /\ conversation = NoConversation
    /\ conversation' = [conversation EXCEPT !.running = TRUE]
    /\ UNCHANGED <<scenario_file, npc_manager, npc_store, session_type, rig, walk,
                   probe, store_vars, budget_vars, talk_vars, extraction,
                   transport, generation>>

ConversationRound ==
    /\ conversation.running
    /\ conversation.round_number < MaxRoundNumber
    /\ \E resources_ok \in BOOLEAN, outcome \in RoundOutcomes, sent \in BOOLEAN :
         conversation' = conversation_round(conversation, resources_ok, outcome, sent)
    /\ UNCHANGED <<scenario_file, npc_manager, npc_store, session_type, rig, walk,
                   probe, store_vars, budget_vars, talk_vars, extraction,
                   transport, generation>>

NextConversation == ContinuousConversation \/ ConversationRound

SpecConversation == Init /\ [][NextConversation]_vars

----------------------------------------------------------------------------
\* Properties of the stage progression (specification Spec).

\* A step that starts and ends with a record of the user.
KeepsRecord == scenario_file.exists /\ scenario_file'.exists

\* The step is setup_master_session.
SetupStep == rig.pc = "idle" /\ rig'.pc = "set"

\* A step of the message pipeline: not setup_master_session, not the loop's
\* own set_current_stage.
PipelineStep == KeepsRecord /\ rig.pc # "set" /\ ~SetupStep

\* The record has the stage and the content init_scenario_creation writes.
FreshContent(file) ==
    /\ file.current_stage = OVERVIEW
    /\ file.title = ""
    /\ file.overview = EmptyOverview
    /\ \A cat \in Categories : file[cat] = <<>>

\* The stage the step leaves was complete when the step changed it: the
\* content the step leaves, under the stage it found.
CompleteAtChange ==
    is_stage_complete([scenario_file' EXCEPT !.current_stage = scenario_file.current_stage],
                      npc_manager, npc_store, scenario_file.current_stage)

\* C1 as stated: in no step does current_stage of the record move to an
\* earlier stage, whatever operation the step is.
C1_NeverRegresses ==
    [][KeepsRecord =>
         StageIndex(scenario_file'.current_stage) >= StageIndex(scenario_file.current_stage)]_vars

\* C1 amended: current_stage moves to an earlier stage only when
\* init_scenario_creation replaces the record by a fresh one (stage Overview,
\* no content), as setup_master_session does; every other step of the
\* pipeline and of set_current_stage's callers keeps or advances it.
C1_RegressesOnlyByInit ==
    [][KeepsRecord =>
         \/ StageIndex(scenario_file'.current_stage) >= StageIndex(scenario_file.current_stage)
         \/ SetupStep /\ FreshContent(scenario_file')]_vars

\* setup_master_session has just replaced a record that had reached Dungeons.
C1_Witness ==
    /\ rig.pc = "set" /\ rig.i = 0 /\ rig.found = DUNGEONS
    /\ scenario_file.current_stage = OVERVIEW

\* C2 as stated: whenever current_stage changes from S to its successor,
\* is_stage_complete(S) is true of the record at that step.
C2_SuccessorOnlyWhenComplete ==
    [][(KeepsRecord
        /\ scenario_file'.current_stage # scenario_file.current_stage
        /\ scenario_file'.current_stage = get_next_stage(scenario_file.current_stage))
       => CompleteAtChange]_vars

\* C2 amended: a step of handle_message changes current_stage only from S to
\* the successor of S and only when is_stage_complete(S) is true at that
\* step; set_current_stage itself checks nothing, and the scenario loop of
\* multi_bot_test sets the stage of its step without the check.
C2_PipelineAdvanceGated ==
    [][(PipelineStep /\ scenario_file'.current_stage # scenario_file.current_stage)
       => /\ scenario_file'.current_stage = get_next_stage(scenario_file.current_stage)
          /\ CompleteAtChange]_vars

\* The pipeline has advanced a user's record (not the loop's) to Hints.
C2_Witness ==
    /\ scenario_file.exists /\ scenario_file.current_stage = HINTS
    /\ scenario_file.episode_progress = <<>>
    /\ is_stage_complete([scenario_file EXCEPT !.current_stage = NPCS],
                         npc_manager, npc_store, NPCS)

\* C4 as stated: the step in which the pipeline finds Dungeons complete and
\* ends scenario creation leaves Completed as the persisted current_stage.
C4_CompletedPersisted ==
    [][(scenario_file.exists /\ session_type = SESSION_SCENARIO
        /\ session_type' = SESSION_ADVENTURE)
       => scenario_file'.exists /\ scenario_file'.current_stage = COMPLETED]_vars

\* C4 amended: an advance of the pipeline persists the successor when the
\* successor is Episodes, NPCs, Hints or Dungeons; Completed is never
\* persisted: when Dungeons is complete the pipeline moves the user to the
\* next session and current_stage stays Dungeons.
C4_CompletedNeverPersisted ==
    /\ [](scenario_file.exists => scenario_file.current_stage # COMPLETED)
    /\ [][(PipelineStep /\ scenario_file'.current_stage # scenario_file.current_stage)
          => /\ scenario_file'.current_stage = get_next_stage(scenario_file.current_stage)
             /\ scenario_file'.current_stage \in {EPISODES, NPCS, HINTS, DUNGEONS}]_vars
    /\ [][(session_type = SESSION_SCENARIO /\ session_type' = SESSION_ADVENTURE)
          => /\ scenario_file'.exists
             /\ scenario_file'.current_stage = DUNGEONS
             /\ is_stage_complete(scenario_file', npc_manager, npc_store, DUNGEONS)]_vars

\* Scenario creation has ended on a complete Dungeons stage.
C4_Witness ==
    /\ session_type = SESSION_ADVENTURE
    /\ scenario_file.exists /\ scenario_file.current_stage = DUNGEONS
    /\ is_stage_complete(scenario_file, npc_manager, npc_store, DUNGEONS)

\* C5 as stated: when setup_master_session runs for a user who has a record,
\* init_scenario_creation leaves it unchanged, so that only the following
\* set_current_stage and update_episode_progress show in the record.
C5_InitKeepsExisting ==
    [][(SetupStep /\ scenario_file.exists)
       => scenario_file' = update_episode_progress(
                               set_current_stage(scenario_file, OVERVIEW),
                               1, EPISODE_IN_PROGRESS)]_vars

\* C5 amended: init_scenario_creation always writes a fresh record with
\* current_stage Overview and no content: it creates the record when none
\* exists and replaces an existing one, whose current_stage, content and
\* episode_progress are lost.  (The message that creates a record may go on
\* to fill its overview and advance it to Episodes in the same run.)
C5_InitAlwaysFresh ==
    /\ [][SetupStep
          => /\ scenario_file'.exists
             /\ FreshContent(scenario_file')
             /\ scenario_file'.episode_progress = <<EPISODE_IN_PROGRESS>>]_vars
    /\ [][(~scenario_file.exists /\ scenario_file'.exists)
          => /\ \/ scenario_file'.current_stage = OVERVIEW
                \/ /\ scenario_file'.current_stage = EPISODES
                   /\ is_stage_complete(scenario_file', npc_manager, npc_store, OVERVIEW)
             /\ scenario_file'.title = ""
             /\ \A cat \in Categories : scenario_file'[cat] = <<>>]_vars

\* setup_master_session has just run for a user whose record had content.
C5_Witness ==
    /\ rig.pc = "set" /\ rig.i = 0 /\ rig.found \in {EPISODES, NPCS, HINTS}
    /\ scenario_file = setup_master_session

----------------------------------------------------------------------------
\* Properties of the pure functions (specification SpecProbe).

\* The overview fields is_stage_complete is said to require.
RequiredOverview == {"theme", "setting", "main_conflict", "objective"}

\* C3: get_next_stage maps every stage to a stage that is not earlier; a
\* caller that starts at Overview is at the (n+1)-th stage after n < 5
\* applications, at Completed after exactly 5, and stays there.
C3_TransitionTable ==
    /\ \A stage \in ScenarioStage :
         /\ get_next_stage(stage) \in ScenarioStage
         /\ StageIndex(get_next_stage(stage)) >= StageIndex(stage)
    /\ get_next_stage(COMPLETED) = COMPLETED
    /\ walk.calls < 5 => walk.stage = StageOrder[walk.calls + 1]
    /\ (walk.stage = COMPLETED) <=> (walk.calls >= 5)

\* The caller has applied get_next_stage once more after reaching Completed.
C3_Witness == walk.calls = 6 /\ walk.stage = COMPLETED

\* C6: for an existing record is_stage_complete(Overview) is true iff theme,
\* setting, main_conflict and objective are all non-empty, and its result is
\* the same whatever rewards is.
C6_OverviewFourFields ==
    (probe.stage = OVERVIEW /\ scenario_file.exists) =>
        /\ probe.result = (\A k \in RequiredOverview : scenario_file.overview[k] # "")
        /\ \A rewards \in {"", "v"} :
             is_stage_complete([scenario_file EXCEPT !.overview["rewards"] = rewards],
                               npc_manager, npc_store, OVERVIEW) = probe.result

\* Overview was found complete although rewards is empty.
C6_Witness ==
    /\ probe.stage = OVERVIEW /\ probe.result
    /\ scenario_file.overview["rewards"] = ""
    /\ scenario_file.overview["title"] = "v"

\* C7 as stated: with an empty title is_stage_complete(Overview) is false.
C7_TitleRequired ==
    (probe.stage = OVERVIEW /\ scenario_file.exists
     /\ scenario_file.title = "" /\ scenario_file.overview["title"] = "")
        => ~probe.result

\* C7 amended: is_stage_complete(Overview) does not read the title: its
\* result is the same whatever the title is, and with an empty title and
\* theme, setting, main_conflict and objective non-empty it is true.
C7_TitleNotRead ==
    (probe.stage = OVERVIEW /\ scenario_file.exists) =>
        /\ \A t1, t2 \in {"", "v"} :
             is_stage_complete([scenario_file EXCEPT !.title = t1,
                                                     !.overview["title"] = t2],
                               npc_manager, npc_store, OVERVIEW) = probe.result
        /\ (/\ scenario_file.title = ""
            /\ scenario_file.overview["title"] = ""
            /\ \A k \in RequiredOverview : scenario_file.overview[k] # "")
           => probe.result

\* Overview was found complete although no title is stored.
C7_Witness ==
    /\ probe.stage = OVERVIEW /\ probe.result
    /\ scenario_file.title = "" /\ scenario_file.overview["title"] = ""

\* C8: is_stage_complete is true for Episodes iff the record has at least 3
\* episodes, for Hints iff at least 3 hints, for Dungeons iff at least 1
\* dungeon; without a record it is false for every stage.
C8_CountThresholds ==
    /\ probe.stage = EPISODES =>
         probe.result = (scenario_file.exists /\ Len(scenario_file.episodes) >= 3)
    /\ probe.stage = HINTS =>
         probe.result = (scenario_file.exists /\ Len(scenario_file.hints) >= 3)
    /\ probe.stage = DUNGEONS =>
         probe.result = (scenario_file.exists /\ Len(scenario_file.dungeons) >= 1)
    /\ (probe.stage \in ScenarioStage /\ ~scenario_file.exists) => ~probe.result

\* Hints was found complete with exactly 3 hints and nothing else stored.
C8_Witness ==
    /\ probe.stage = HINTS /\ probe.result
    /\ Len(scenario_file.hints) = 3
    /\ Len(scenario_file.episodes) = 0 /\ Len(scenario_file.dungeons) = 0

----------------------------------------------------------------------------
\* Properties of the stored content (specification Spec).

\* C10: in every category the i-th stored record has id i, so the ids are
\* 1..n in append order, also after fields of earlier records were filled;
\* a record with three hints has the ids 1, 2, 3 and Hints is complete.
C10_DenseIds ==
    scenario_file.exists =>
        /\ \A cat \in Categories :
             \A i \in 1..Len(scenario_file[cat]) : scenario_file[cat][i].id = i
        /\ Len(scenario_file.hints) = 3 =>
             /\ [i \in 1..3 |-> scenario_file.hints[i].id] = <<1, 2, 3>>
             /\ is_stage_complete(scenario_file, npc_manager, npc_store, HINTS)

\* Three hints were appended and the pipeline advanced past Hints.
C10_Witness ==
    /\ scenario_file.exists
    /\ Len(scenario_file.hints) = 3
    /\ scenario_file.current_stage = DUNGEONS

----------------------------------------------------------------------------
\* Properties of add_* and of the record's persistence (specification
\* SpecAppend).

\* A step that is one call of add_episode, add_npc, add_hint or add_dungeon.
AppendStep == append_call'.n = append_call.n + 1

\* C11: a call of add_* for a user whose record cannot be loaded is a silent
\* no-op: the file is left as it was, no record is created, and a read after
\* it still reports no record (so no id was assigned to anything stored).
C11_AppendWithoutRecordNoOp ==
    [][(AppendStep /\ ~load_scenario(scenario_file).exists)
        => /\ scenario_file' = scenario_file
           /\ ~load_scenario(scenario_file').exists]_vars

C11_Witness ==
    /\ append_call.n >= 1
    /\ append_call.cat = "hints"
    /\ scenario_file = NoScenario

\* C12 as stated: a call of add_* whose write fails leaves the stored
\* category as it was, so the next successful append gets the same id.
C12_FailedWriteKeepsCategory ==
    [][(AppendStep /\ append_call'.fault # "none" /\ load_scenario(scenario_file).exists)
        => /\ load_scenario(scenario_file').exists
           /\ load_scenario(scenario_file')[append_call'.cat]
                = load_scenario(scenario_file)[append_call'.cat]]_vars

\* C13 as stated: the final path of a user who has a record holds a complete,
\* loadable record at every moment, the moments of a failed save included.
C13_FinalPathAlwaysLoadable ==
    scenario_file # NoScenario => load_scenario(scenario_file).exists

----------------------------------------------------------------------------
\* Properties of save_session_data and of its caller (specification
\* SpecStore).

\* The running call has ended without returning True.
SaveFailed == save.pc = "done" /\ save.result # RETURN_TRUE

\* C14 as stated: when a call fails or is interrupted before os.rename has
\* completed, the final path holds what it held when the call began.
C14_FailureKeepsOldFile ==
    (SaveFailed /\ ~save.renamed) => session_file = save.before

\* C15: whatever the moment at which a reader opens the final path while a
\* save is at any of its steps, the path holds no file or the whole text of
\* a record, never a part of one.
C15_ReaderNeverPartial ==
    /\ session_file # NoFile => session_file.complete
    /\ reader.file # NoFile => reader.file.complete

\* A reader read the old record while the temporary file was half written.
C15_Witness ==
    /\ reader.at = "dump"
    /\ reader.file = OldFile
    /\ temp_file # NoFile
    /\ ~temp_file.complete

\* C16: a call never ends with an exception; it returns False when user,
\* category or data is empty, and when any step raised.
C16_NeverRaises ==
    /\ save.result # RAISED
    /\ (save.pc = "done" /\ (~save.user_ok \/ save.category = "empty"
                             \/ save.data = "empty"))
         => save.result = RETURN_FALSE
    /\ (save.pc = "done" /\ save.fault # "none") => save.result = RETURN_FALSE

\* str.replace was called on a session type that is not a string.
C16_Witness ==
    /\ save.pc = "done"
    /\ save.fault = "AttributeError"
    /\ save.result = RETURN_FALSE

C18_AdvanceOnlyAfterSave ==
    [][/\ session_type' # session_type
            => /\ save.pc = "done" /\ save.caller = "handler"
               /\ save.result = RETURN_TRUE
               /\ session_type \in MacroSessions
               /\ session_type' = get_next_session(session_type)
       /\ scenario_file' # scenario_file
            => /\ save.pc = "done" /\ save.caller = "handler"
               /\ save.result = RETURN_TRUE
               /\ session_type' = SESSION_PLAY
               /\ scenario_file' = update_episode_progress(scenario_file, 1,
                                                           EPISODE_IN_PROGRESS)
       /\ (save.pc = "done" /\ save.caller = "handler" /\ save' # save)
            => IF save.result = RETURN_TRUE
               THEN session_type' = get_next_session(session_type)
               ELSE /\ session_type' = session_type
                    /\ scenario_file' = scenario_file
                    /\ save'.pc = "idle"]_vars

\* The session reached play and episode 1 of the record is in progress.
C18_Witness ==
    /\ session_type = SESSION_PLAY
    /\ scenario_file.exists
    /\ 1 \in DOMAIN scenario_file.episode_progress
    /\ scenario_file.episode_progress[1] = EPISODE_IN_PROGRESS

----------------------------------------------------------------------------
\* Properties of optimize_context_parts (specification SpecBudget).

Optimized == optimized_parts # NotOptimized

TruncatedCount == Cardinality({i \in DOMAIN optimized_parts :
                                 optimized_parts[i].cut # "none"})

\* C19: a list whose total length is at most the budget comes back as it
\* is, the same blocks in the same order with the same text; the empty list
\* comes back empty.
C19_WithinBudgetUnchanged ==
    Optimized =>
        /\ SumLen(context_parts) <= max_total_length
              => optimized_parts = context_parts
        /\ context_parts = <<>> => optimized_parts = <<>>

\* Two blocks that fill the budget exactly came back as they were.
C19_Witness ==
    /\ Optimized
    /\ Len(context_parts) = 2
    /\ SumLen(context_parts) = max_total_length
    /\ optimized_parts = context_parts

\* C20 as stated: for a list whose total length exceeds the budget, the
\* returned blocks put together (separators not counted) are no longer than
\* the budget plus one elision marker for each truncated block.
C20_OutputWithinBudget ==
    (Optimized /\ SumLen(context_parts) > max_total_length)
        => SumLen(optimized_parts)
             <= max_total_length + ELISION_MARKER_LENGTH * TruncatedCount

\* The call was made on a list longer than the budget.
Oversized == Optimized /\ SumLen(context_parts) > max_total_length

\* remaining_length when the loop reaches block i.
RemainingBefore(i) ==
    max_total_length - SumLen(SubSeq(optimized_parts, 1, i - 1))

Min3(a, b, c) ==
    LET ab == IF a < b THEN a ELSE b
    IN IF ab < c THEN ab ELSE c

\* The allocation of block i: min(share, remaining budget, block size).
Allocation(i) ==
    Min3(allocated_length(context_parts[i], Len(context_parts), max_total_length),
         RemainingBefore(i), context_parts[i].len)

\* C21 as stated: an emitted block longer than its allocation keeps exactly
\* as many characters as its allocation, its tail after the marker when it
\* is a conversation or summary block and its head before the marker
\* otherwise; a block no longer than its allocation is emitted unchanged.
C21_TruncationKeepsAllocation ==
    Oversized =>
        \A i \in DOMAIN optimized_parts :
            optimized_parts[i] =
                IF context_parts[i].len > Allocation(i)
                THEN [context_parts[i] EXCEPT
                        !.cut = IF context_parts[i].tail THEN "tail" ELSE "head",
                        !.len = Allocation(i) + ELISION_MARKER_LENGTH]
                ELSE context_parts[i]

\* The block of the output that block i of the input became, its text put
\* aside.
SameBlock(out, in) == out.ratio = in.ratio /\ out.tail = in.tail

\* C22: on a list longer than the budget the output is made of the first
\* blocks of the input, in their order; each is reached with budget left,
\* and when blocks are left out the budget was used up by the emitted ones.
C22_OutputIsPrefix ==
    Oversized =>
        /\ Len(optimized_parts) <= Len(context_parts)
        /\ \A i \in DOMAIN optimized_parts :
              /\ SameBlock(optimized_parts[i], context_parts[i])
              /\ RemainingBefore(i) > 0
        /\ Len(optimized_parts) < Len(context_parts)
              => RemainingBefore(Len(optimized_parts) + 1) <= 0

\* Blocks were dropped after a truncated block used up the budget.
C22_Witness ==
    /\ Oversized
    /\ Len(optimized_parts) = 1
    /\ Len(context_parts) = 3
    /\ optimized_parts[1].cut = "head"

\* The even share as C23 states it: the budget divided among the blocks that
\* hold no priority keyword.
StatedShare(i) ==
    IF context_parts[i].ratio = 0
    THEN max_total_length \div Cardinality({j \in DOMAIN context_parts :
                                              context_parts[j].ratio = 0})
    ELSE (max_total_length * context_parts[i].ratio) \div 100

\* C23 as stated: a block is cut exactly when it is longer than min(share,
\* remaining budget), with the even share taken among the unmatched blocks.
C23_SharesAmongUnmatched ==
    Oversized =>
        \A i \in DOMAIN optimized_parts :
            optimized_parts[i].cut = "none"
                <=> context_parts[i].len
                      <= Min3(StatedShare(i), RemainingBefore(i), context_parts[i].len)

\* C23: a block is cut exactly when it is longer than min(share, remaining
\* budget), where the share is 30/25/20/15/10 hundredths of the budget
\* (rounded down) for its first priority keyword and, for a block with none,
\* the budget divided by the number of all blocks of the list; a block cut
\* at its head keeps exactly its allocation.  A 4000-character
\* character-info block first in a list against 7000 keeps 2100.
C23_SharesOfBudget ==
    /\ Oversized =>
        \A i \in DOMAIN optimized_parts :
            /\ optimized_parts[i].cut = "none"
                 <=> context_parts[i].len <= Allocation(i)
            /\ optimized_parts[i].cut = "head"
                 => optimized_parts[i].len = Allocation(i) + ELISION_MARKER_LENGTH
    /\ optimize_context_parts(
          <<[ratio |-> 30, tail |-> FALSE, len |-> 4000, cut |-> "none"],
            [ratio |-> 0, tail |-> FALSE, len |-> 6000, cut |-> "none"]>>,
          LLM_SAFE_CONTEXT_LENGTH)[1]
         = [ratio |-> 30, tail |-> FALSE, cut |-> "head",
            len |-> 2100 + ELISION_MARKER_LENGTH]

\* An unmatched block beside a matched one was cut at half the budget.
C23_Witness ==
    /\ Oversized
    /\ Len(context_parts) = 2
    /\ context_parts[1].ratio = 0
    /\ context_parts[2].ratio # 0
    /\ optimized_parts[1].cut = "head"
    /\ optimized_parts[1].len = (max_total_length \div 2) + ELISION_MARKER_LENGTH

----------------------------------------------------------------------------
\* Properties of extract_session_completion_info and of the macro-session
\* branch of handle_message (specification SpecCompletion).

\* The text of the last check holds a completion keyword of its session type.
KeywordMatched ==
    /\ completion.session \in CompletionSessions
    /\ completion.session \in completion.text.keywords_of

\* C24: when the user's text holds a completion keyword of the session type,
\* the check returns True and no call of the generation backend is made.
C24_KeywordShortCircuits ==
    (completion.called /\ KeywordMatched)
        => /\ completion.result = RETURN_TRUE
           /\ completion.llm_calls = 0

\* A keyword matched while the backend would have failed.
C24_Witness ==
    /\ completion.called
    /\ completion.caller = "handler"
    /\ KeywordMatched
    /\ completion.outcome = BackendFailure
    /\ completion.result = RETURN_TRUE

\* C25: the backend is called only when no keyword matched and the session
\* type has a description, and then once, with a prompt made of the
\* description, the last 5 turns of the conversation and the user's text;
\* the check then returns True exactly when the reply holds the completion
\* marker.  For a session type without a description it returns False and
\* calls nothing.
C25_JudgePhase ==
    completion.called =>
        /\ completion.llm_calls = 1
             <=> (~KeywordMatched /\ completion.session \in CompletionSessions)
        /\ completion.llm_calls \in {0, 1}
        /\ completion.llm_calls = 1 =>
             LET turns == completion.prompt.turns
                 history == completion.history
             IN /\ completion.prompt.description = completion.session
                /\ completion.prompt.text = completion.text
                /\ Len(turns) = IF Len(history) < 5 THEN Len(history) ELSE 5
                /\ \A k \in DOMAIN turns :
                      turns[k] = history[Len(history) - Len(turns) + k]
                /\ completion.outcome \in BackendReplies
                     => (completion.result = RETURN_TRUE
                           <=> completion.outcome \in {"done", "both"})
        /\ completion.session \notin CompletionSessions
             => completion.result = RETURN_FALSE

\* A judge call on a conversation longer than five turns whose reply holds
\* the completion marker.
C25_Witness ==
    /\ completion.called
    /\ ~KeywordMatched
    /\ completion.llm_calls = 1
    /\ Len(completion.history) = MaxHistory
    /\ completion.outcome = "both"
    /\ completion.result = RETURN_TRUE

\* The last check called the backend and the call failed.
JudgeFailed(c) ==
    c.called /\ c.llm_calls = 1 /\ c.outcome = BackendFailure

\* C26: when the backend call of the check fails, the check returns False
\* and raises nothing; in handle_message the session type and the record
\* then stay as they are and the ordinary answer is produced and recorded.
C26_JudgeFailureIsFalse ==
    /\ [](JudgeFailed(completion) => completion.result = RETURN_FALSE)
    /\ [][(JudgeFailed(completion') /\ completion'.caller = "handler"
           /\ user_conversations' # user_conversations)
            => /\ session_type' = session_type
               /\ scenario_file' = scenario_file
               /\ completion'.reply = "answer"
               /\ Len(user_conversations') = Len(user_conversations) + 2]_vars

C26_Witness ==
    /\ JudgeFailed(completion)
    /\ completion.caller = "handler"
    /\ completion.reply = "answer"
    /\ session_type = completion.session

----------------------------------------------------------------------------
\* Properties of the repetition check (specification SpecRepetition).

\* The positions of the last REPETITION_TURNS turns of a conversation.
LastTurns(conversation_history) ==
    {i \in DOMAIN conversation_history :
       i > Len(conversation_history) - REPETITION_TURNS}

\* The turns among `turns` whose text holds the keyword.
Holding(conversation_history, turns, keyword) ==
    {i \in turns :
       \/ conversation_history[i].motif = keyword
       \/ keyword = "again" /\ conversation_history[i].motif = "once_again"}

\* C27: the repetition check answers true when one keyword occurs at least
\* three times in the last ten turns, and false when every keyword occurs at
\* most twice there and no round number of five or more is found there;
\* what the turns before the last ten hold has no part in either case.
C27_RepetitionInLastTenTurns ==
    repetition.called =>
        LET history == repetition.history
            last == LastTurns(history)
        IN /\ (\E keyword \in RepetitiveKeywords :
                 Cardinality(Holding(history, last, keyword)) >= 3)
              => repetition.result
           /\ (/\ \A keyword \in RepetitiveKeywords :
                    Cardinality(Holding(history, last, keyword)) <= 2
               /\ \A i \in last : history[i].round < 5)
              => ~repetition.result

\* A third occurrence of a keyword lies before the last ten turns, and the
\* check answers false.
C27_Witness ==
    /\ repetition.called
    /\ Len(repetition.history) > REPETITION_TURNS
    /\ Cardinality(Holding(repetition.history, DOMAIN repetition.history,
                           "dungeon")) = 3
    /\ Cardinality(Holding(repetition.history, LastTurns(repetition.history),
                           "dungeon")) = 2
    /\ ~repetition.result

----------------------------------------------------------------------------
\* Properties of the forced transition (specification SpecPlay).

\* The record apart from the sessions it was played in.
Persisted(file) == IF file.exists THEN [file EXCEPT !.sessions = {}] ELSE file

\* Positions of the episodes in progress.
InProgress(file) ==
    IF file.exists
    THEN {i \in DOMAIN file.episodes :
            /\ file.episodes[i].id \in DOMAIN file.episode_progress
            /\ file.episode_progress[file.episodes[i].id] = EPISODE_IN_PROGRESS}
    ELSE {}

\* The step calls force_episode_progression_context.
Forcing == repetition'.called /\ repetition'.directive # NoDirective

\* C28: a forced transition on a record with no next episode returns one of
\* the generic templates and leaves the persisted record as it was; with a
\* next episode it returns the directive holding that episode's title and
\* objective and the scenario context, and afterwards the episode that was
\* in progress is completed and the next one is in progress.
C28_ForcedTransition ==
    [][Forcing =>
        LET running == InProgress(scenario_file)
            directive == repetition'.directive
        IN IF \/ running = {}
              \/ \A i \in running :
                   \/ \E j \in running : j < i
                   \/ i = Len(scenario_file.episodes)
           THEN /\ directive.kind = "generic"
                /\ directive.template \in 1..PROGRESSION_PROMPTS
                /\ Persisted(scenario_file') = Persisted(scenario_file)
           ELSE \E i \in running :
                  /\ \A j \in running : i <= j
                  /\ directive = [kind |-> "next_episode",
                                  title |-> scenario_file.episodes[i + 1].title,
                                  objective |-> scenario_file.episodes[i + 1].objective,
                                  scenario_context |-> repetition'.scenario_context]
                  /\ scenario_file'.episode_progress[scenario_file.episodes[i].id]
                       = EPISODE_COMPLETED
                  /\ scenario_file'.episode_progress[scenario_file.episodes[i + 1].id]
                       = EPISODE_IN_PROGRESS
                  /\ \A k \in DOMAIN scenario_file.episode_progress :
                       k \notin {scenario_file.episodes[i].id,
                                 scenario_file.episodes[i + 1].id}
                       => scenario_file'.episode_progress[k]
                            = scenario_file.episode_progress[k]]_vars

\* A forced transition has returned the directive of the second episode,
\* the first episode is completed and the second in progress.
C28_Witness ==
    /\ repetition.called
    /\ repetition.directive # NoDirective
    /\ repetition.directive.kind = "next_episode"
    /\ repetition.directive.title = "2"
    /\ scenario_file.episode_progress = <<EPISODE_COMPLETED, EPISODE_IN_PROGRESS>>

\* C29: one repetition event advances the episode pointer once.  When the
\* last play message forced the transition to the next episode, and the
\* turns recorded since (the master's answer to it and the user's new turn)
\* hold no keyword and no round number, the play message that follows does
\* not advance the pointer again.
C29_OneAdvancePerEvent ==
    [][(/\ repetition.called
        /\ repetition.caller = "handler"
        /\ repetition.directive.kind = "next_episode"
        /\ Len(user_conversations') = Len(user_conversations) + 2
        /\ user_conversations[Len(user_conversations)]
             = PlainTurn(Len(user_conversations))
        /\ user_conversations'[Len(user_conversations) + 1]
             = PlainTurn(Len(user_conversations) + 1))
       => InProgress(scenario_file') = InProgress(scenario_file)]_vars

----------------------------------------------------------------------------
\* Properties of the stage pointer and the episode progress (specification
\* SpecEpisodes).

\* The content the generation stages fill.
StageContent(file) ==
    [overview |-> file.overview, episodes |-> file.episodes, npcs |-> file.npcs,
     hints |-> file.hints, dungeons |-> file.dungeons]

\* C30: an operation that sets current_stage leaves episode_progress and the
\* stage content as they were; update_episode_progress and
\* advance_to_next_episode leave current_stage and the stage content as
\* they were.
C30_StageAndProgressIndependent ==
    [][scenario_file.exists =>
        /\ scenario_file'.exists
        /\ StageContent(scenario_file') = StageContent(scenario_file)
        /\ (\E stage \in ScenarioStage :
              scenario_file' = set_current_stage(scenario_file, stage))
           => scenario_file'.episode_progress = scenario_file.episode_progress
        /\ scenario_file'.episode_progress # scenario_file.episode_progress
           => scenario_file'.current_stage = scenario_file.current_stage]_vars

\* The stage pointer has been moved to the last stage and the episodes have
\* advanced from the first to the second.
C30_Witness ==
    /\ scenario_file.exists
    /\ scenario_file.current_stage = COMPLETED
    /\ scenario_file.episode_progress = <<EPISODE_COMPLETED, EPISODE_IN_PROGRESS>>
    /\ StageContent(scenario_file) = StageContent(PlayFile(MaxRecords))

----------------------------------------------------------------------------
\* Properties of the extraction (specification SpecExtraction).

\* The stage content of a user: that of the record, or none at all.
ContentOf(file) ==
    IF file.exists THEN StageContent(file) ELSE StageContent(init_scenario_creation)

----------------------------------------------------------------------------
\* Properties of the transport (specification SpecTransport).

\* C33: every chunk split_long_message returns is no longer than
\* max_length, and every payload send_long_message gives to the transport
\* is no longer than the transport takes.
C33_ChunksWithinLimit ==
    transport.called =>
        /\ \A i \in DOMAIN transport.chunks :
             transport.chunks[i] <= transport.max_length
        /\ \A i \in DOMAIN transport.sent :
             transport.sent[i] <= TELEGRAM_MAX_MESSAGE_LENGTH

----------------------------------------------------------------------------
\* Properties of the generation calls (specification SpecMaster).

\* C32: every generation call generate_master_response_with_scenario_support
\* makes is bounded by a timeout, and after a timeout the value returned is
\* the local response, without a second call of what timed out.
C32_EveryCallBounded ==
    /\ \A k \in DOMAIN generation.calls : generation.calls[k].timeout
    /\ (/\ generation.pc = "returned"
        /\ generation.calls # <<>>
        /\ generation.calls[Len(generation.calls)].outcome = "timeout")
       => generation.response = "local"

----------------------------------------------------------------------------
\* Properties of the conversation loop (specification SpecConversation).

\* C34: on every path through a round the loop of continuous_conversation
\* ends once round_number is above MAX_ROUNDS: no pass of the loop begins
\* with a round_number above it.
C34_LoopEndsAboveMaxRounds ==
    conversation.running => conversation.round_number <= MAX_ROUNDS

----------------------------------------------------------------------------
\* Properties of the stage advance (specification SpecAdvance).

\* C35: one message handled in the scenario creation session raises
\* current_stage by one stage at most, although the extraction and the
\* completion check are made twice.
C35_OneStagePerMessage ==
    [][(extraction'.called /\ extraction'.caller = "handler")
       => StageIndex(get_current_stage(scenario_file'))
            <= StageIndex(get_current_stage(scenario_file)) + 1]_vars

\* A message at the episode stage: the extraction from the text stored the
\* second episode, the extraction from the reply the third, and the second
\* completion check advanced the stage to NPC.
C35_Witness ==
    /\ extraction.called
    /\ extraction.caller = "handler"
    /\ extraction.attempts = 2
    /\ extraction.before.exists
    /\ extraction.before.current_stage = EPISODES
    /\ Len(extraction.before.episodes) = 1
    /\ Len(extraction.after.episodes) = 2
    /\ scenario_file.exists
    /\ Len(scenario_file.episodes) = 3
    /\ scenario_file.current_stage = NPCS

----------------------------------------------------------------------------
\* Properties of the episode progress (specification SpecEntries).

\* C36: whatever entries into the play session and advances were made, at
\* most one episode of the record is in progress.
C36_AtMostOneInProgress ==
    Cardinality(InProgress(scenario_file)) <= 1

\* C37: a call of advance_to_next_episode that finds an episode in
\* progress leaves that episode completed in the record on disk, also when
\* it is the last episode of the list.
C37_AdvanceCompletesCurrent ==
    LET scenario_data == load_scenario(scenario_file)
        current == IF scenario_data.exists THEN current_episode_index(scenario_data)
                   ELSE 0
        after == load_scenario(advance_to_next_episode(scenario_file))
    IN current >= 1 =>
         episode_status(after, scenario_data.episodes[current].id) = EPISODE_COMPLETED

----------------------------------------------------------------------------
\* Properties of the fill (specification SpecFill).

\* The fields of record i of a category the report does not list are the
\* same in both records, and so is the id.
SameUnlisted(before, after, listed) ==
    /\ DOMAIN after = DOMAIN before
    /\ after.id = before.id
    /\ \A k \in DOMAIN before \ listed : after[k] = before[k]

\* C38: update_missing_fields changes no field that empty_fields does not
\* list, neither the number, the order nor the ids of the records of a
\* category, nor current_stage; when it filled nothing it returns False and
\* the record on disk is what it was.
C38_FillsOnlyEmptyFields ==
    [][(extraction'.called /\ extraction'.caller = "fill")
       => LET before == scenario_file
              after == scenario_file'
              listed == extraction'.empty_fields
          IN /\ after.exists = before.exists
             /\ before.exists =>
                  /\ after.current_stage = before.current_stage
                  /\ after.title = before.title
                  /\ after.sessions = before.sessions
                  /\ after.episode_progress = before.episode_progress
                  /\ \A k \in OverviewChecked \ listed.overview :
                       after.overview[k] = before.overview[k]
                  /\ \A cat \in Categories :
                       /\ Len(after[cat]) = Len(before[cat])
                       /\ \A i \in DOMAIN before[cat] :
                            SameUnlisted(before[cat][i], after[cat][i],
                                         listed[cat][i])
             /\ ~extraction'.result => after = before]_vars

\* A fill on data with a value for every field, a record more than are
\* stored and ids of its own: the empty field of the second episode was
\* filled, its title and its id and the first episode are what they were.
C38_Witness ==
    /\ extraction.called
    /\ extraction.caller = "fill"
    /\ extraction.whole
    /\ extraction.result
    /\ extraction.before.exists
    /\ Len(extraction.before.episodes) = 2
    /\ extraction.before.episodes[2].objective = ""
    /\ extraction.before.episodes[1].objective = "v"
    /\ scenario_file.episodes[2].objective = "w"
    /\ scenario_file.episodes[2].title = "v"
    /\ scenario_file.episodes[2].id = 2
    /\ scenario_file.episodes[1] = extraction.before.episodes[1]
    /\ Len(scenario_file.episodes) = 2

====
